---- MODULE Spec2Model ----
(***************************************************************************)
(* Model of UnitSearchFiltersService                                       *)
(* (src/src/app/services/unit-search-filters.service.ts).                  *)
(*                                                                         *)
(* Strings whose characters matter (search text, chassis/model text, URL   *)
(* payloads, option labels being sorted) are sequences of one-character    *)
(* atoms.  Option names stored in Filter State are atoms; Chars(name)      *)
(* gives their characters where the codec needs them.                      *)
(* JS objects are insertion-ordered, so Filter State and multistate        *)
(* selections are sequences of entries with unique keys.                   *)
(* Angular runs the service's effects after every change of a signal and   *)
(* before the next event handler; each action below therefore ends with    *)
(* the effects' work (FlushEffects).                                       *)
(***************************************************************************)
EXTENDS Integers, Sequences, FiniteSets, TLC

VARIABLES
    filterState,            \* signal<FilterState>: <<[key, value, interactedWith]>>
    search,                 \* signal<string>
    selectedSort,           \* signal<string>
    selectedSortDirection,  \* signal<'asc'|'desc'>
    pilotGunnerySkill,      \* signal<number>
    pilotPilotingSkill,     \* signal<number>
    expandedView,           \* signal<boolean>
    totalRangesCache,       \* Record<string,[number,number]> of the range filters
    availableNamesCache,    \* Map<string,string[]>: the memo of option names (it
                            \* is followed by SpecOptions and SpecStartup; Spec,
                            \* whose properties do not read it, leaves it alone)
    call,                   \* pure-function specifications: the call being made;
                            \* startup specifications: the page and its parameters
    ret                     \* pure-function specifications: its result; startup
                            \* specifications: urlStateInitialized and what was stored

vars == <<filterState, search, selectedSort, selectedSortDirection,
          pilotGunnerySkill, pilotPilotingSkill, expandedView, totalRangesCache,
          availableNamesCache, call, ret>>

serviceVars == <<filterState, search, selectedSort, selectedSortDirection,
                 pilotGunnerySkill, pilotPilotingSkill, expandedView, totalRangesCache,
                 availableNamesCache>>

(***************************************************************************)
(* Bounds of the model.                                                    *)
(***************************************************************************)
MaxFilters == 2

(***************************************************************************)
(* Generic helpers.                                                        *)
(***************************************************************************)
\* a field that a record does not carry (undefined / null in the source)
Null == -1000

SetMin(S) == CHOOSE x \in S : \A y \in S : x <= y

SetMax(S) == CHOOSE x \in S : \A y \in S : x >= y

MathMin(a, b) == IF a <= b THEN a ELSE b

MathMax(a, b) == IF a >= b THEN a ELSE b

Range(s) == {s[i] : i \in 1..Len(s)}

\* Array.prototype.includes
Includes(s, x) == \E i \in 1..Len(s) : s[i] = x

\* Array.prototype.filter, order kept
Filter(s, Keep(_)) == SelectSeq(s, Keep)

RECURSIVE Flatten(_)
Flatten(ss) == IF Len(ss) = 0 THEN <<>> ELSE Head(ss) \o Flatten(Tail(ss))

RECURSIVE SumSeq(_)
SumSeq(s) == IF s = <<>> THEN 0 ELSE Head(s) + SumSeq(Tail(s))

(***************************************************************************)
(* The dataset the external DataService provides: records, eras, factions. *)
(* chassis/model are the normalized _chassis/_model texts.                 *)
(***************************************************************************)
Units ==
    << [id |-> 1, chassis |-> <<"a","b","a">>, model |-> <<"a","b">>, type |-> "Mek",
        comp |-> <<[n |-> "L", q |-> 2], [n |-> "M L", q |-> 1]>>,
        quirks |-> <<"Q1">>, bv |-> 2, heat |-> 1],
       [id |-> 2, chassis |-> <<"a","b">>, model |-> <<"b">>, type |-> "Mek",
        comp |-> <<[n |-> "L", q |-> 1]>>,
        quirks |-> <<"Q1","Q2">>, bv |-> 4, heat |-> -1],
       [id |-> 3, chassis |-> <<"b">>, model |-> <<"a">>, type |-> "Tank",
        comp |-> <<[n |-> "M L", q |-> 1], [n |-> "M L", q |-> 1]>>,
        quirks |-> <<>>, bv |-> 0, heat |-> 3],
       [id |-> 4, chassis |-> <<"b","a">>, model |-> <<>>, type |-> "Tank",
        comp |-> <<>>,
        quirks |-> <<"Q2">>, bv |-> 3, heat |-> Null] >>

UnitIds(units) == {units[i].id : i \in 1..Len(units)}

FACTION_EXTINCT == 3

Eras ==
    << [id |-> 1, name |-> "E1", units |-> {1, 2, 3}],
       [id |-> 2, name |-> "E2", units |-> {2, 3, 4}] >>

Factions ==
    << [id |-> FACTION_EXTINCT, name |-> "Extinct", eras |-> (1 :> {3})],
       [id |-> 5, name |-> "F1", eras |-> (1 :> {1}) @@ (2 :> {2, 4})],
       [id |-> 6, name |-> "F2", eras |-> (2 :> {3})] >>

(***************************************************************************)
(* ADVANCED_FILTERS: one definition of every kind the service dispatches   *)
(* on (external dropdown, plain dropdown, countable component multistate,  *)
(* plain multistate, the adjusted-BV range, a range with ignored values).  *)
(***************************************************************************)
ADVANCED_FILTERS ==
    << [key |-> "era", type |-> "dropdown", external |-> TRUE, multistate |-> FALSE,
        countable |-> FALSE, ignoreValues |-> {}],
       [key |-> "faction", type |-> "dropdown", external |-> TRUE, multistate |-> FALSE,
        countable |-> FALSE, ignoreValues |-> {}],
       [key |-> "type", type |-> "dropdown", external |-> FALSE, multistate |-> FALSE,
        countable |-> FALSE, ignoreValues |-> {}],
       [key |-> "componentName", type |-> "dropdown", external |-> FALSE, multistate |-> TRUE,
        countable |-> TRUE, ignoreValues |-> {}],
       [key |-> "quirks", type |-> "dropdown", external |-> FALSE, multistate |-> TRUE,
        countable |-> FALSE, ignoreValues |-> {}],
       [key |-> "bv", type |-> "range", external |-> FALSE, multistate |-> FALSE,
        countable |-> FALSE, ignoreValues |-> {}],
       [key |-> "heat", type |-> "range", external |-> FALSE, multistate |-> FALSE,
        countable |-> FALSE, ignoreValues |-> {-1}] >>

FilterKeys == {ADVANCED_FILTERS[i].key : i \in 1..Len(ADVANCED_FILTERS)}

\* ADVANCED_FILTERS.find(f => f.key === key), for a key that is defined
ConfOf(key) == ADVANCED_FILTERS[CHOOSE i \in 1..Len(ADVANCED_FILTERS) : ADVANCED_FILTERS[i].key = key]

RangeKeys == {k \in FilterKeys : ConfOf(k).type = "range"}

(***************************************************************************)
(* Filter State access.                                                    *)
(***************************************************************************)
HasKey(state, key) == \E i \in 1..Len(state) : state[i].key = key

EntryOf(state, key) == state[CHOOSE i \in 1..Len(state) : state[i].key = key]

\* state[key]?.interactedWith ?? false
Interacted(state, key) == HasKey(state, key) /\ EntryOf(state, key).interactedWith

\* PutEntry without the spread of the current state: the new entry alone
PutEntry_NoSpread(state, entry) == <<entry>>

\* { ...state, [key]: entry }: an existing key keeps its place, a new one is appended
PutEntry(state, entry) ==
    IF HasKey(state, entry.key)
    THEN [i \in 1..Len(state) |-> IF state[i].key = entry.key THEN entry ELSE state[i]]
    ELSE Append(state, entry)

\* const contextState = { ...state }; delete contextState[key]
ContextState(state, key) == Filter(state, LAMBDA e : e.key # key)

(***************************************************************************)
(* Tri-State Set Matcher and the per-record component index.               *)
(***************************************************************************)
\* getUnitComponentData(unit).componentNames
ComponentNames(unit) == {unit.comp[i].n : i \in 1..Len(unit.comp)}

\* getUnitComponentData(unit).componentCounts.get(name) || 0
ComponentCount(unit, name) ==
    SumSeq([i \in 1..Len(unit.comp) |-> IF unit.comp[i].n = name THEN unit.comp[i].q ELSE 0])

\* the names / counts filterUnitsByMultiState derives for a record (every record of
\* the dataset carries a list, possibly empty, under a multistate key)
UnitDataNames(unit, key) ==
    IF key = "componentName" THEN ComponentNames(unit)
    ELSE Range(unit[key])

UnitDataCount(unit, key, name) ==
    IF key = "componentName" THEN ComponentCount(unit, name)
    ELSE Cardinality({i \in 1..Len(unit[key]) : unit[key][i] = name})

\* MultiStateKeeps testing membership only, whatever the requested counts
MultiStateKeeps_MembershipOnly(unit, key, selection) ==
    LET orList == Filter(selection, LAMBDA e : e.state = "or")
        andList == Filter(selection, LAMBDA e : e.state = "and")
        notSet == {e.name : e \in {x \in Range(selection) : x.state = "not"}}
        names == UnitDataNames(unit, key)
        Has(e) == e.name \in names
    IN  IF \E n \in notSet : n \in names THEN FALSE
        ELSE IF \E e \in Range(andList) : ~Has(e) THEN FALSE
        ELSE IF Len(orList) > 0 THEN \E e \in Range(orList) : Has(e)
        ELSE TRUE

\* MultiStateKeeps with the OR test moved in front of the NOT test
MultiStateKeeps_OrBeforeNot(unit, key, selection) ==
    LET orList == Filter(selection, LAMBDA e : e.state = "or")
        andList == Filter(selection, LAMBDA e : e.state = "and")
        notSet == {e.name : e \in {x \in Range(selection) : x.state = "not"}}
        needsQuantityCounting == \E e \in Range(orList) \cup Range(andList) : e.count > 1
        names == UnitDataNames(unit, key)
        Has(e) == IF needsQuantityCounting
                  THEN UnitDataCount(unit, key, e.name) >= e.count
                  ELSE e.name \in names
    IN  IF Len(orList) > 0 /\ \E e \in Range(orList) : Has(e) THEN TRUE
        ELSE IF \E n \in notSet : n \in names THEN FALSE
        ELSE IF \E e \in Range(andList) : ~Has(e) THEN FALSE
        ELSE Len(orList) = 0

\* the per-record predicate of units.filter(...) in filterUnitsByMultiState
MultiStateKeeps(unit, key, selection) ==
    LET orList == Filter(selection, LAMBDA e : e.state = "or")
        andList == Filter(selection, LAMBDA e : e.state = "and")
        notSet == {e.name : e \in {x \in Range(selection) : x.state = "not"}}
        needsQuantityCounting == \E e \in Range(orList) \cup Range(andList) : e.count > 1
        names == UnitDataNames(unit, key)
        Has(e) == IF needsQuantityCounting
                  THEN UnitDataCount(unit, key, e.name) >= e.count
                  ELSE e.name \in names
    IN  IF \E n \in notSet : n \in names THEN FALSE
        ELSE IF \E e \in Range(andList) : ~Has(e) THEN FALSE
        ELSE IF Len(orList) > 0 THEN \E e \in Range(orList) : Has(e)
        ELSE TRUE

filterUnitsByMultiState(units, key, selection) ==
    IF \A e \in Range(selection) : e.state \notin {"or", "and", "not"}
    THEN units
    ELSE Filter(units, LAMBDA u : MultiStateKeeps(u, key, selection))

(***************************************************************************)
(* Adjusted battle value.  BVCalculatorUtil is an external collaborator:   *)
(* its formula is stood for by a skill surcharge that keeps 0 at 0.        *)
(***************************************************************************)
CalculateAdjustedBV(bv, gunnery, piloting) ==
    IF bv <= 0 THEN bv ELSE bv + (4 - gunnery) + (5 - piloting)

getAdjustedBV(unit, sk) ==
    IF sk.gunnery = 4 /\ sk.piloting = 5 THEN unit.bv
    ELSE CalculateAdjustedBV(unit.bv, sk.gunnery, sk.piloting)

(***************************************************************************)
(* External id-based filters (era / faction).  A null id set is           *)
(* [isNull |-> TRUE].                                                      *)
(***************************************************************************)
NullIds == [isNull |-> TRUE, ids |-> {}]

\* getUnitIdsForSelectedEras dropping an id that is extinct in any era
getUnitIdsForSelectedEras_ExtinctAnywhere(selectedEraNames) ==
    IF Len(selectedEraNames) = 0 THEN NullIds
    ELSE LET extinct == {f \in Range(Factions) : f.id = FACTION_EXTINCT}
             ExtinctAnywhere == UNION {UNION {f.eras[x] : x \in DOMAIN f.eras} : f \in extinct}
             EraIds(name) ==
                 UNION {{id \in e.units : id \notin ExtinctAnywhere} :
                            e \in {x \in Range(Eras) : x.name = name}}
         IN  [isNull |-> FALSE, ids |-> UNION {EraIds(n) : n \in Range(selectedEraNames)}]

getUnitIdsForSelectedEras(selectedEraNames) ==
    IF Len(selectedEraNames) = 0 THEN NullIds
    ELSE LET extinct == {f \in Range(Factions) : f.id = FACTION_EXTINCT}
             ExtinctFor(eraId) ==
                 UNION {IF eraId \in DOMAIN f.eras THEN f.eras[eraId] ELSE {} : f \in extinct}
             EraIds(name) ==
                 UNION {{id \in e.units : id \notin ExtinctFor(e.id)} :
                            e \in {x \in Range(Eras) : x.name = name}}
         IN  [isNull |-> FALSE, ids |-> UNION {EraIds(n) : n \in Range(selectedEraNames)}]

\* contextEraIds: [defined |-> BOOLEAN, ids |-> set of era ids]
getUnitIdsForSelectedFactions(selectedFactionNames, contextEraIds) ==
    IF Len(selectedFactionNames) = 0 THEN NullIds
    ELSE LET FactionIds(name) ==
                 UNION {UNION {f.eras[eraId] :
                                   eraId \in {x \in DOMAIN f.eras :
                                                  ~contextEraIds.defined \/ x \in contextEraIds.ids}} :
                            f \in {x \in Range(Factions) : x.name = name}}
         IN  [isNull |-> FALSE, ids |-> UNION {FactionIds(n) : n \in Range(selectedFactionNames)}]

\* activeFilters[key] || []
ActiveNames(state, key) == IF Interacted(state, key) THEN EntryOf(state, key).value ELSE <<>>

ApplyExternal(units, state) ==
    LET selectedEraNames == ActiveNames(state, "era")
        selectedFactionNames == ActiveNames(state, "faction")
        selectedEraIds == {e.id : e \in {x \in Range(Eras) : Includes(selectedEraNames, x.name)}}
        factionUnitIds ==
            IF Len(selectedFactionNames) > 0
            THEN getUnitIdsForSelectedFactions(selectedFactionNames,
                     [defined |-> selectedEraIds # {}, ids |-> selectedEraIds])
            ELSE NullIds
        eraUnitIds ==
            IF Len(selectedFactionNames) > 0 THEN NullIds
            ELSE IF Len(selectedEraNames) > 0 THEN getUnitIdsForSelectedEras(selectedEraNames)
            ELSE NullIds
        finalIds ==
            IF ~eraUnitIds.isNull /\ ~factionUnitIds.isNull
            THEN eraUnitIds.ids \cap factionUnitIds.ids
            ELSE IF ~eraUnitIds.isNull THEN eraUnitIds.ids ELSE factionUnitIds.ids
    IN  IF ~eraUnitIds.isNull \/ ~factionUnitIds.isNull
        THEN Filter(units, LAMBDA u : u.id \in finalIds)
        ELSE units

(***************************************************************************)
(* Standard (property-based) filters.                                      *)
(***************************************************************************)
\* RangeKeeps with the ignored values treated like any other number
RangeKeeps_NoIgnoredBranch(unit, conf, val, sk) ==
    IF conf.key = "bv"
    THEN getAdjustedBV(unit, sk) >= val[1] /\ getAdjustedBV(unit, sk) <= val[2]
    ELSE unit[conf.key] # Null /\ unit[conf.key] >= val[1] /\ unit[conf.key] <= val[2]

\* the per-record predicate of a touched range filter
RangeKeeps(unit, conf, val, sk) ==
    IF conf.key = "bv"
    THEN getAdjustedBV(unit, sk) >= val[1] /\ getAdjustedBV(unit, sk) <= val[2]
    ELSE IF unit[conf.key] \in conf.ignoreValues
         THEN val[1] = 0
         ELSE unit[conf.key] # Null /\ unit[conf.key] >= val[1] /\ unit[conf.key] <= val[2]

\* ApplyStandardFilter applying the stored value of an untouched entry as well
ApplyStandardFilter_IgnoresFlag(results, state, conf, sk) ==
    IF conf.external THEN results
    ELSE IF ~HasKey(state, conf.key) THEN results
    ELSE LET val == EntryOf(state, conf.key).value
         IN  IF conf.type = "dropdown" /\ conf.multistate
             THEN filterUnitsByMultiState(results, conf.key, val)
             ELSE IF conf.type = "dropdown"
             THEN IF Len(val) > 0
                  THEN Filter(results, LAMBDA u : Includes(val, u[conf.key]))
                  ELSE results
             ELSE Filter(results, LAMBDA u : RangeKeeps(u, conf, val, sk))

\* one iteration of "for (const conf of ADVANCED_FILTERS)" in applyFilters
ApplyStandardFilter(results, state, conf, sk) ==
    IF conf.external THEN results
    ELSE IF ~Interacted(state, conf.key) THEN results
    ELSE LET val == EntryOf(state, conf.key).value
         IN  IF conf.type = "dropdown" /\ conf.multistate
             THEN filterUnitsByMultiState(results, conf.key, val)
             ELSE IF conf.type = "dropdown"
             THEN IF Len(val) > 0
                  THEN Filter(results, LAMBDA u : Includes(val, u[conf.key]))
                  ELSE results
             ELSE Filter(results, LAMBDA u : RangeKeeps(u, conf, val, sk))

RECURSIVE ApplyStandardFrom(_, _, _, _)
ApplyStandardFrom(results, state, i, sk) ==
    IF i > Len(ADVANCED_FILTERS) THEN results
    ELSE ApplyStandardFrom(ApplyStandardFilter(results, state, ADVANCED_FILTERS[i], sk),
                           state, i + 1, sk)

applyFilters(units, state, sk) == ApplyStandardFrom(ApplyExternal(units, state), state, 1, sk)

(***************************************************************************)
(* Text search.                                                            *)
(***************************************************************************)
RECURSIVE TrimStart(_)
TrimStart(s) == IF Len(s) > 0 /\ s[1] = " " THEN TrimStart(Tail(s)) ELSE s

RECURSIVE TrimEnd(_)
TrimEnd(s) == IF Len(s) > 0 /\ s[Len(s)] = " " THEN TrimEnd(SubSeq(s, 1, Len(s) - 1)) ELSE s

\* String.prototype.trim
Trim(s) == TrimEnd(TrimStart(s))

\* String.prototype.toLowerCase
ToLowerCase(s) ==
    [i \in 1..Len(s) |-> CASE s[i] = "A" -> "a" [] s[i] = "B" -> "b" [] OTHER -> s[i]]

\* DataService.removeAccents ("a^" is the one accented letter of the alphabet)
RemoveAccents(s) == [i \in 1..Len(s) |-> IF s[i] = "a^" THEN "a" ELSE s[i]]

\* String.prototype.split on a one-character separator class: the pieces between
\* consecutive separators, empty pieces included
SplitAt(s, seps) ==
    LET pos == {i \in 1..Len(s) : s[i] \in seps}
        n == Cardinality(pos)
        Bound(k) == IF k = 0 THEN 0
                    ELSE IF k = n + 1 THEN Len(s) + 1
                    ELSE CHOOSE p \in pos : Cardinality({q \in pos : q < p}) = k - 1
    IN  [k \in 1..(n + 1) |-> SubSeq(s, Bound(k - 1) + 1, Bound(k) - 1)]

\* Array.from(new Set(list)): the first occurrence of each element, in order
RECURSIVE Dedupe(_)
Dedupe(s) ==
    IF Len(s) = 0 THEN <<>>
    ELSE LET d == Dedupe(SubSeq(s, 1, Len(s) - 1))
         IN  IF Includes(d, s[Len(s)]) THEN d ELSE Append(d, s[Len(s)])

\* list.sort((a, b) => b.length - a.length): stable, longest first
RECURSIVE InsertByLength(_, _)
InsertByLength(sorted, x) ==
    IF Len(sorted) = 0 THEN <<x>>
    ELSE IF Len(sorted[Len(sorted)]) - Len(x) < 0
         THEN Append(InsertByLength(SubSeq(sorted, 1, Len(sorted) - 1), x), sorted[Len(sorted)])
         ELSE Append(sorted, x)

RECURSIVE SortByLengthDesc(_)
SortByLengthDesc(s) ==
    IF Len(s) = 0 THEN <<>>
    ELSE InsertByLength(SortByLengthDesc(SubSeq(s, 1, Len(s) - 1)), s[Len(s)])

\* hay.indexOf(token, start), 0-based, -1 when absent
IndexOf(hay, token, start) ==
    LET at == {i \in start..(Len(hay) - Len(token)) : SubSeq(hay, i + 1, i + Len(token)) = token}
    IN  IF at = {} THEN -1 ELSE SetMin(at)

\* the while loop of tokensMatchNonOverlapping: the first occurrence of token at or
\* after start that overlaps no taken span, -1 when there is none
RECURSIVE FindFree(_, _, _, _)
FindFree(hay, token, start, taken) ==
    IF start > Len(hay) - Len(token) THEN -1
    ELSE LET idx == IndexOf(hay, token, start)
             end == idx + Len(token)
         IN  IF idx = -1 THEN -1
             ELSE IF \E t \in taken : ~(end <= t[1] \/ idx >= t[2])
                  THEN FindFree(hay, token, idx + 1, taken)
                  ELSE idx

RECURSIVE TokensFrom(_, _, _, _)
TokensFrom(hay, tokens, i, taken) ==
    IF i > Len(tokens) THEN TRUE
    ELSE IF Len(tokens[i]) = 0 THEN TokensFrom(hay, tokens, i + 1, taken)
    ELSE LET idx == FindFree(hay, tokens[i], 0, taken)
         IN  IF idx = -1 THEN FALSE
             ELSE TokensFrom(hay, tokens, i + 1, taken \cup {<<idx, idx + Len(tokens[i])>>})

tokensMatchNonOverlapping(text, tokens) == TokensFrom(text, tokens, 1, {})

UnitText(unit) == unit.chassis \o <<" ">> \o unit.model

matchesWords(unit, words) ==
    IF Len(words) = 0 THEN TRUE ELSE tokensMatchNonOverlapping(UnitText(unit), words)

\* the words of one OR-group, as filteredUnits prepares them (split(/\s+/) and
\* filter(Boolean) keep the non-empty pieces between whitespace)
GroupWords(group) ==
    LET pieces == Filter(SplitAt(group, {" "}), LAMBDA w : Len(w) > 0)
    IN  SortByLengthDesc(Dedupe([i \in 1..Len(pieces) |-> RemoveAccents(pieces[i])]))

\* OrGroups splitting on commas only
OrGroups_CommaOnly(query) ==
    LET pieces == SplitAt(query, {","})
    IN  Filter([i \in 1..Len(pieces) |-> Trim(pieces[i])], LAMBDA g : Len(g) > 0)

\* query.split(/[,;]/).map(g => g.trim()).filter(Boolean)
OrGroups(query) ==
    LET pieces == SplitAt(query, {",", ";"})
    IN  Filter([i \in 1..Len(pieces) |-> Trim(pieces[i])], LAMBDA g : Len(g) > 0)

\* the text stage of filteredUnits / advOptions
TextFilter(units, searchText) ==
    LET query == ToLowerCase(Trim(searchText))
    IN  IF Len(query) = 0 THEN units
        ELSE Filter(units, LAMBDA u :
                 \E g \in Range(OrGroups(query)) : matchesWords(u, GroupWords(g)))

\* filteredUnits up to the sort: the records it holds
FilteredRecords(state, searchText, sk) == applyFilters(TextFilter(Units, searchText), state, sk)

(***************************************************************************)
(* advOptions: the context set of a filter and the range part.             *)
(***************************************************************************)
\* contextUnits = this.applyFilters(baseUnits, contextState)
ContextUnits(conf, state, searchText, sk) ==
    applyFilters(TextFilter(Units, searchText), ContextState(state, conf.key), sk)

\* the numbers getValidFilterValues keeps (only their min and max are used)
getValidFilterValues(units, conf) ==
    {u[conf.key] : u \in Range(units)} \ ({Null} \cup conf.ignoreValues)

\* vals of the range branch of advOptions
RangeVals(conf, units, sk) ==
    IF conf.key = "bv"
    THEN {b \in {getAdjustedBV(u, sk) : u \in Range(units)} : b > 0}
    ELSE getValidFilterValues(units, conf)

\* advOptions()[key].options of a range filter
AvailableRange(conf, state, searchText, sk, cache) ==
    LET vals == RangeVals(conf, ContextUnits(conf, state, searchText, sk), sk)
    IN  IF vals # {} THEN <<SetMin(vals), SetMax(vals)>> ELSE cache[conf.key]

\* ClampRange without the swap of inverted endpoints
ClampRange_NoSwap(currentValue, availableRange) ==
    <<MathMax(availableRange[1], MathMin(currentValue[1], availableRange[2])),
      MathMin(availableRange[2], MathMax(currentValue[2], availableRange[1]))>>

\* the clamp of the stored interval into the available range
ClampRange(currentValue, availableRange) ==
    LET clampedMin == MathMax(availableRange[1], MathMin(currentValue[1], availableRange[2]))
        clampedMax == MathMin(availableRange[2], MathMax(currentValue[2], availableRange[1]))
    IN  IF clampedMin > clampedMax THEN <<clampedMax, clampedMin>> ELSE <<clampedMin, clampedMax>>

\* advOptions()[key].value of a range filter
ExposedRangeValue(conf, state, searchText, sk, cache) ==
    LET availableRange == AvailableRange(conf, state, searchText, sk, cache)
        currentValue == IF Interacted(state, conf.key) THEN EntryOf(state, conf.key).value
                        ELSE availableRange
    IN  ClampRange(currentValue, availableRange)

(***************************************************************************)
(* setFilter and the effects that follow a change.                         *)
(***************************************************************************)
(***************************************************************************)
(* advOptions: the option names of a multistate dropdown, memoized in       *)
(* availableNamesCache, and their availability flag.  The cache is a set    *)
(* of [key, names] records.                                                 *)
(***************************************************************************)
MultistateConfs == {c \in Range(ADVANCED_FILTERS) : c.multistate /\ c.type = "dropdown"}

\* `${conf.key}-${contextUnits.length}-${JSON.stringify(currentFilter?.value || {})}`
NamesCacheKey(conf, state, contextUnits) ==
    <<conf.key, Len(contextUnits),
      IF HasKey(state, conf.key) THEN EntryOf(state, conf.key).value ELSE <<>>>>

\* Array.from(nameSet): the names of the records of a context set, each once, in
\* the order they are met
CollectNames(conf, units) ==
    Dedupe(Flatten([i \in 1..Len(units) |->
                       IF conf.key = "componentName"
                       THEN [j \in 1..Len(units[i].comp) |-> units[i].comp[j].n]
                       ELSE units[i][conf.key]]))

\* availableNames: the memoized names under the cache key, else collected
AvailableNames(conf, state, searchText, sk, cache) ==
    LET contextUnits == ContextUnits(conf, state, searchText, sk)
        k == NamesCacheKey(conf, state, contextUnits)
    IN  IF \E c \in cache : c.key = k
        THEN (CHOOSE c \in cache : c.key = k).names
        ELSE CollectNames(conf, contextUnits)

\* availableNamesCache once advOptions has been computed
CacheAfterAdvOptions(state, searchText, sk, cache) ==
    cache \cup
        {[key |-> NamesCacheKey(c, state, ContextUnits(c, state, searchText, sk)),
          names |-> AvailableNames(c, state, searchText, sk, cache)] : c \in MultistateConfs}

\* validUnits without the NOT conditions
ValidUnits_NotIgnored(conf, selection, contextUnits) ==
    LET andEntries == Filter(selection, LAMBDA e : e.state = "and")
    IN  Filter(contextUnits,
               LAMBDA u :
                   \A e \in Range(andEntries) :
                       IF conf.key = "componentName"
                       THEN ComponentCount(u, e.name) >= e.count
                       ELSE e.name \in Range(u[conf.key]))

\* validUnits: the context records without a NOT name that satisfy every AND entry
ValidUnits(conf, selection, contextUnits) ==
    LET andEntries == Filter(selection, LAMBDA e : e.state = "and")
        notSet == {e.name : e \in {x \in Range(selection) : x.state = "not"}}
    IN  Filter(contextUnits,
               LAMBDA u :
                   /\ \A n \in notSet : n \notin UnitDataNames(u, conf.key)
                   /\ \A e \in Range(andEntries) :
                          IF conf.key = "componentName"
                          THEN ComponentCount(u, e.name) >= e.count
                          ELSE e.name \in Range(u[conf.key]))

\* filteredAvailableNames
FilteredAvailableNames(conf, state, searchText, sk, cache) ==
    LET availableNames == AvailableNames(conf, state, searchText, sk, cache)
        selection == EntryOf(state, conf.key).value
    IN  IF Interacted(state, conf.key) /\ \E e \in Range(selection) : e.state = "and"
        THEN CollectNames(conf, ValidUnits(conf, selection,
                                           ContextUnits(conf, state, searchText, sk)))
        ELSE availableNames

\* SetFilterInteracted without the all-off test of multistate selections
SetFilterInteracted_NoAllOff(conf, value, state, searchText, sk, cache) ==
    IF conf.type = "range"
    THEN ~(value = AvailableRange(conf, state, searchText, sk, cache))
    ELSE ~(Len(value) = 0)

\* the interacted flag setFilter derives from the value
SetFilterInteracted(conf, value, state, searchText, sk, cache) ==
    IF conf.type = "range"
    THEN ~(value = AvailableRange(conf, state, searchText, sk, cache))
    ELSE IF conf.multistate
         THEN ~(Len(value) = 0 \/ \A e \in Range(value) : e.state = "off")
         ELSE ~(Len(value) = 0)

\* Filter State after setFilter(key, value)
setFilter(state, key, value, searchText, sk, cache) ==
    IF key \notin FilterKeys THEN state
    ELSE PutEntry(state, [key |-> key, value |-> value,
                          interactedWith |->
                              SetFilterInteracted(ConfOf(key), value, state, searchText, sk, cache)])

\* totalRangesCache after calculateTotalRanges
calculateTotalRanges(sk) ==
    [k \in RangeKeys |->
        LET vals == RangeVals(ConfOf(k), Units, sk)
        IN  IF vals # {} THEN <<SetMin(vals), SetMax(vals)>> ELSE <<0, 0>>]

\* Filter State after recalculateBVRange, the cache already holding the bv range
recalculateBVRange(state, searchText, sk, cache) ==
    LET bvValues == {b \in {getAdjustedBV(u, sk) : u \in Range(Units)} : b > 0}
    IN  IF Len(Units) = 0 \/ bvValues = {} \/ ~Interacted(state, "bv") THEN state
        ELSE LET currentValue == EntryOf(state, "bv").value
                 adjustedValue == <<MathMax(SetMin(bvValues), currentValue[1]),
                                    MathMin(SetMax(bvValues), currentValue[2])>>
             IN  IF adjustedValue # currentValue
                 THEN setFilter(state, "bv", adjustedValue, searchText, sk, cache)
                 ELSE state

\* the second effect runs again while advOptions keeps changing
RECURSIVE FlushEffects(_, _, _, _)
FlushEffects(state, searchText, sk, cache) ==
    LET next == recalculateBVRange(state, searchText, sk, cache)
    IN  IF next = state THEN state ELSE FlushEffects(next, searchText, sk, cache)

\* availableNamesCache once the effects have run: advOptions is computed for the
\* state at hand and for every state the second effect stores after it
RECURSIVE CacheAfterEffects(_, _, _, _, _)
CacheAfterEffects(state, searchText, sk, cache, names) ==
    LET read == CacheAfterAdvOptions(state, searchText, sk, names)
        next == recalculateBVRange(state, searchText, sk, cache)
    IN  IF next = state THEN read ELSE CacheAfterEffects(next, searchText, sk, cache, read)

(***************************************************************************)
(* Compact URL codec.  Texts are sequences of characters.                  *)
(***************************************************************************)
\* the characters of the filter keys and of the option names of the dataset
Chars(name) ==
    CASE name = "era" -> <<"e", "r", "a">>
      [] name = "faction" -> <<"f", "a", "c", "t", "i", "o", "n">>
      [] name = "type" -> <<"t", "y", "p", "e">>
      [] name = "componentName" ->
            <<"c", "o", "m", "p", "o", "n", "e", "n", "t", "N", "a", "m", "e">>
      [] name = "quirks" -> <<"q", "u", "i", "r", "k", "s">>
      [] name = "bv" -> <<"b", "v">>
      [] name = "heat" -> <<"h", "e", "a", "t">>
      [] name = "name" -> <<"n", "a", "m", "e">>
      [] name = "E1" -> <<"E", "1">>
      [] name = "E2" -> <<"E", "2">>
      [] name = "F1" -> <<"F", "1">>
      [] name = "F2" -> <<"F", "2">>
      [] name = "Extinct" -> <<"E", "x", "t", "i", "n", "c", "t">>
      [] name = "Mek" -> <<"M", "e", "k">>
      [] name = "Tank" -> <<"T", "a", "n", "k">>
      [] name = "L" -> <<"L">>
      [] name = "M L" -> <<"M", " ", "L">>
      [] name = "Q1" -> <<"Q", "1">>
      [] name = "Q2" -> <<"Q", "2">>

\* Array.prototype.join
RECURSIVE Join(_, _)
Join(parts, sep) ==
    IF Len(parts) = 0 THEN <<>>
    ELSE IF Len(parts) = 1 THEN parts[1]
    ELSE parts[1] \o sep \o Join(Tail(parts), sep)

Digits == <<"0", "1", "2", "3", "4", "5", "6", "7", "8", "9">>

DigitVal(c) == (CHOOSE i \in 1..10 : Digits[i] = c) - 1

RECURSIVE NatToStr(_)
NatToStr(n) ==
    IF n < 10 THEN <<Digits[n + 1]>> ELSE Append(NatToStr(n \div 10), Digits[(n % 10) + 1])

\* `${n}` of an integer
NumToStr(n) == IF n < 0 THEN <<"-">> \o NatToStr(-n) ELSE NatToStr(n)

RECURSIVE DigitsValue(_)
DigitsValue(s) ==
    IF Len(s) = 0 THEN 0
    ELSE DigitsValue(SubSeq(s, 1, Len(s) - 1)) * 10 + DigitVal(s[Len(s)])

NaN == [isNaN |-> TRUE, val |-> 0]

\* parseFloat / parseInt of a text holding an integer: leading whitespace, an
\* optional sign, the longest run of digits; what follows is ignored; NaN without
\* a digit.  (Fractions and exponents are outside the texts of the model.)
ParseNumber(s) ==
    LET t == TrimStart(s)
        signed == Len(t) > 0 /\ t[1] \in {"-", "+"}
        body == IF signed THEN Tail(t) ELSE t
        n == SetMax({k \in 0..Len(body) : \A i \in 1..k : body[i] \in Range(Digits)})
        v == DigitsValue(SubSeq(body, 1, n))
    IN  IF n = 0 THEN NaN
        ELSE [isNaN |-> FALSE, val |-> IF signed /\ t[1] = "-" THEN 0 - v ELSE v]

\* the characters of the model's alphabet that encodeURIComponent escapes, with
\* their two hex digits; letters, digits and - _ . ! ~ * ' ( ) are left alone
PercentCodes ==
    (" " :> <<"2", "0">>) @@ ("," :> <<"2", "C">>) @@ ("|" :> <<"7", "C">>)
        @@ (":" :> <<"3", "A">>) @@ ("%" :> <<"2", "5">>)

encodeURIComponent(s) ==
    Flatten([i \in 1..Len(s) |->
                IF s[i] \in DOMAIN PercentCodes THEN <<"%">> \o PercentCodes[s[i]] ELSE <<s[i]>>])

\* decodeURIComponent from position i on, the text decoded so far being acc;
\* [ok |-> FALSE] stands for the URIError of a malformed escape
RECURSIVE DecodeFrom(_, _, _)
DecodeFrom(s, i, acc) ==
    IF i > Len(s) THEN [ok |-> TRUE, val |-> acc]
    ELSE IF s[i] = "%"
    THEN IF i + 2 <= Len(s) /\ \E c \in DOMAIN PercentCodes : PercentCodes[c] = <<s[i + 1], s[i + 2]>>
         THEN DecodeFrom(s, i + 3,
                         Append(acc, CHOOSE x \in DOMAIN PercentCodes :
                                         PercentCodes[x] = <<s[i + 1], s[i + 2]>>))
         ELSE [ok |-> FALSE, val |-> <<>>]
    ELSE DecodeFrom(s, i + 1, Append(acc, s[i]))

decodeURIComponent(s) == DecodeFrom(s, 1, <<>>)

\* one entry of a multistate selection as generateCompactFiltersParam writes it
EncodeSelectionItem(e) ==
    encodeURIComponent(Chars(e.name))
        \o (IF e.state = "and" THEN <<".">> ELSE IF e.state = "not" THEN <<"!">> ELSE <<>>)
        \o (IF e.count > 1 THEN <<"~">> \o NumToStr(e.count) ELSE <<>>)

\* GeneratePart without the interactedWith test
GeneratePart_NoTouchedTest(entry) ==
    IF entry.key \notin FilterKeys THEN <<>>
    ELSE LET conf == ConfOf(entry.key)
             val == entry.value
         IN  IF conf.type = "range"
             THEN <<Chars(entry.key) \o <<":">> \o NumToStr(val[1]) \o <<"-">> \o NumToStr(val[2])>>
             ELSE IF conf.multistate
             THEN LET live == Filter(val, LAMBDA e : e.state # "off")
                      subParts == [i \in 1..Len(live) |-> EncodeSelectionItem(live[i])]
                  IN  IF Len(subParts) > 0
                      THEN <<Chars(entry.key) \o <<":">> \o Join(subParts, <<",">>)>>
                      ELSE <<>>
             ELSE IF Len(val) > 0
                  THEN <<Chars(entry.key) \o <<":">>
                         \o Join([i \in 1..Len(val) |-> encodeURIComponent(Chars(val[i]))], <<",">>)>>
                  ELSE <<>>

\* the parts (none or one) one Filter State entry contributes
GeneratePart(entry) ==
    IF ~entry.interactedWith \/ entry.key \notin FilterKeys THEN <<>>
    ELSE LET conf == ConfOf(entry.key)
             val == entry.value
         IN  IF conf.type = "range"
             THEN <<Chars(entry.key) \o <<":">> \o NumToStr(val[1]) \o <<"-">> \o NumToStr(val[2])>>
             ELSE IF conf.multistate
             THEN LET live == Filter(val, LAMBDA e : e.state # "off")
                      subParts == [i \in 1..Len(live) |-> EncodeSelectionItem(live[i])]
                  IN  IF Len(subParts) > 0
                      THEN <<Chars(entry.key) \o <<":">> \o Join(subParts, <<",">>)>>
                      ELSE <<>>
             ELSE IF Len(val) > 0
                  THEN <<Chars(entry.key) \o <<":">>
                         \o Join([i \in 1..Len(val) |-> encodeURIComponent(Chars(val[i]))], <<",">>)>>
                  ELSE <<>>

\* [isNull |-> TRUE] is the null returned when no part was written
generateCompactFiltersParam(state) ==
    LET parts == Flatten([i \in 1..Len(state) |-> GeneratePart(state[i])])
    IN  IF Len(parts) > 0 THEN [isNull |-> FALSE, text |-> Join(parts, <<"|">>)]
        ELSE [isNull |-> TRUE, text |-> <<>>]

\* one item of a multistate payload as parseCompactFiltersFromUrl reads it; the
\* decoded name is a text
ParseSelectionItem(item) ==
    LET dot == Len(item) > 0 /\ item[Len(item)] = "."
        bang == Len(item) > 0 /\ item[Len(item)] = "!"
        state == IF dot THEN "and" ELSE IF bang THEN "not" ELSE "or"
        stripped == IF dot \/ bang THEN SubSeq(item, 1, Len(item) - 1) ELSE item
        starIndex == IndexOf(stripped, <<"~">>, 0)
        parsed == ParseNumber(SubSeq(stripped, starIndex + 2, Len(stripped)))
        count == IF starIndex # -1 /\ ~parsed.isNaN /\ parsed.val # 0 THEN parsed.val ELSE 1
        encodedName == IF starIndex # -1 THEN SubSeq(stripped, 1, starIndex) ELSE stripped
        name == decodeURIComponent(encodedName)
    IN  [ok |-> name.ok, name |-> name.val, state |-> state, count |-> count]

\* selection[name] = { state, count }
PutSelection(selection, e) ==
    IF \E i \in 1..Len(selection) : selection[i].name = e.name
    THEN [i \in 1..Len(selection) |-> IF selection[i].name = e.name THEN e ELSE selection[i]]
    ELSE Append(selection, e)

RECURSIVE ParseSelectionFrom(_, _, _)
ParseSelectionFrom(items, j, selection) ==
    IF j > Len(items) THEN [ok |-> TRUE, val |-> selection]
    ELSE LET it == ParseSelectionItem(items[j])
         IN  IF ~it.ok THEN [ok |-> FALSE, val |-> selection]
             ELSE ParseSelectionFrom(items, j + 1,
                      PutSelection(selection,
                                   [name |-> it.name, state |-> it.state, count |-> it.count]))

\* one '|' part: "skip" (nothing stored), "store" (an entry) or "throw" (a decode
\* error, which ends the parse)
ParsePart(part) ==
    LET colonIndex == IndexOf(part, <<":">>, 0)
        keyText == SubSeq(part, 1, colonIndex)
        valueStr == SubSeq(part, colonIndex + 2, Len(part))
        keys == {k \in FilterKeys : Chars(k) = keyText}
        Skip == [kind |-> "skip", entry |-> <<>>]
        Throw == [kind |-> "throw", entry |-> <<>>]
        Store(k, v) == [kind |-> "store",
                        entry |-> [key |-> k, value |-> v, interactedWith |-> TRUE]]
    IN  IF colonIndex = -1 \/ keys = {} THEN Skip
        ELSE LET key == CHOOSE k \in keys : TRUE
                 conf == ConfOf(key)
             IN  IF conf.type = "range"
                 THEN LET dashIndex == IndexOf(valueStr, <<"-">>, 0)
                          min == ParseNumber(SubSeq(valueStr, 1, dashIndex))
                          max == ParseNumber(SubSeq(valueStr, dashIndex + 2, Len(valueStr)))
                      IN  IF dashIndex # -1 /\ ~min.isNaN /\ ~max.isNaN
                          THEN Store(key, <<min.val, max.val>>)
                          ELSE Skip
                 ELSE IF conf.multistate
                 THEN LET sel == ParseSelectionFrom(SplitAt(valueStr, {","}), 1, <<>>)
                      IN  IF ~sel.ok THEN Throw
                          ELSE IF Len(sel.val) > 0 THEN Store(key, sel.val) ELSE Skip
                 ELSE LET items == Filter(SplitAt(valueStr, {","}), LAMBDA v : Len(v) > 0)
                          names == [i \in 1..Len(items) |-> decodeURIComponent(items[i])]
                      IN  IF \E i \in 1..Len(names) : ~names[i].ok THEN Throw
                          ELSE IF Len(names) > 0
                          THEN Store(key, [i \in 1..Len(names) |-> names[i].val])
                          ELSE Skip

RECURSIVE ParsePartsFrom(_, _, _)
ParsePartsFrom(parts, i, state) ==
    IF i > Len(parts) THEN state
    ELSE LET p == ParsePart(parts[i])
         IN  IF p.kind = "throw" THEN state
             ELSE ParsePartsFrom(parts, i + 1,
                                 IF p.kind = "store" THEN PutEntry(state, p.entry) ELSE state)

\* the Filter State parseCompactFiltersFromUrl returns; dropdown names are texts
parseCompactFiltersFromUrl(filtersParam) ==
    ParsePartsFrom(SplitAt(filtersParam, {"|"}), 1, <<>>)

\* the option names the dataset offers for a dropdown filter
getAvailableDropdownValues(conf) ==
    IF conf.external
    THEN IF conf.key = "era" THEN {Eras[i].name : i \in 1..Len(Eras)}
         ELSE IF conf.key = "faction" THEN {Factions[i].name : i \in 1..Len(Factions)}
         ELSE {}
    ELSE IF conf.key = "componentName"
         THEN UNION {ComponentNames(Units[i]) : i \in 1..Len(Units)}
         ELSE IF conf.multistate
              THEN UNION {Range(Units[i][conf.key]) : i \in 1..Len(Units)}
              ELSE {Units[i][conf.key] : i \in 1..Len(Units)}

\* Filter State once setFilter(key, value) has returned and the effects have run
AfterSetFilter(state, key, value, searchText, sk, cache) ==
    FlushEffects(setFilter(state, key, value, searchText, sk, cache), searchText, sk, cache)

(***************************************************************************)
(* The service as a state machine.                                         *)
(***************************************************************************)
Skills == [gunnery |-> pilotGunnerySkill, piloting |-> pilotPilotingSkill]

NoCall == [op |-> "none"]

NoRet == [done |-> FALSE]

\* the values the dropdowns, sliders and the search box send
DropdownInputs(key) ==
    CASE key = "era" -> {<<>>, <<"E1">>, <<"E1", "E2">>}
      [] key = "faction" -> {<<>>, <<"F1">>}
      [] key = "type" -> {<<>>, <<"Tank">>}
      [] key = "componentName" ->
            {<<>>,
             <<[name |-> "L", state |-> "and", count |-> 2]>>,
             <<[name |-> "L", state |-> "or", count |-> 1],
               [name |-> "M L", state |-> "not", count |-> 1]>>}
      [] key = "quirks" ->
            {<<>>,
             <<[name |-> "Q2", state |-> "not", count |-> 1],
               [name |-> "Q1", state |-> "off", count |-> 1]>>}

RangeInputs(key) ==
    CASE key = "bv" -> {<<0, 3>>, <<4, 2>>}
      [] key = "heat" -> {<<0, 9>>, <<0, 1>>, <<2, 3>>}

SearchInputs == {<<>>, <<"B", "a">>}

SkillInputs == {<<4, 5>>, <<3, 5>>}

Init ==
    /\ filterState = <<>>
    /\ search = <<>>
    /\ selectedSort = "name"
    /\ selectedSortDirection = "asc"
    /\ pilotGunnerySkill = 4
    /\ pilotPilotingSkill = 5
    /\ expandedView = FALSE
    /\ totalRangesCache = calculateTotalRanges([gunnery |-> 4, piloting |-> 5])
    /\ availableNamesCache =
           CacheAfterAdvOptions(<<>>, <<>>, [gunnery |-> 4, piloting |-> 5], {})
    /\ call = NoCall
    /\ ret = NoRet

SetFilter(key, value) ==
    /\ HasKey(filterState, key) \/ Len(filterState) < MaxFilters
    /\ filterState' = AfterSetFilter(filterState, key, value, search, Skills, totalRangesCache)
    /\ UNCHANGED <<search, selectedSort, selectedSortDirection, pilotGunnerySkill,
                   pilotPilotingSkill, expandedView, totalRangesCache, availableNamesCache,
                   call, ret>>

SetFilterDropdown ==
    \E key \in {k \in FilterKeys : ConfOf(k).type = "dropdown"} :
        \E value \in DropdownInputs(key) : SetFilter(key, value)

\* the slider moved back to the whole available range (drawn for heat)
ResetInputs(key) ==
    IF key = "heat"
    THEN {AvailableRange(ConfOf(key), filterState, search, Skills, totalRangesCache)}
    ELSE {}

SetFilterRange ==
    \E key \in RangeKeys :
        \E value \in RangeInputs(key) \cup ResetInputs(key) :
            SetFilter(key, value)

SetSearch ==
    \E query \in SearchInputs :
        /\ search' = query
        /\ filterState' = FlushEffects(filterState, query, Skills, totalRangesCache)
        /\ UNCHANGED <<selectedSort, selectedSortDirection, pilotGunnerySkill,
                       pilotPilotingSkill, expandedView, totalRangesCache,
                       availableNamesCache, call, ret>>

SetPilotSkills ==
    \E s \in SkillInputs :
        LET sk == [gunnery |-> s[1], piloting |-> s[2]]
            cache == calculateTotalRanges(sk)
        IN  /\ pilotGunnerySkill' = s[1]
            /\ pilotPilotingSkill' = s[2]
            /\ totalRangesCache' = cache
            /\ filterState' = FlushEffects(filterState, search, sk, cache)
            /\ UNCHANGED <<search, selectedSort, selectedSortDirection, expandedView,
                           availableNamesCache, call, ret>>

\* ClearFilters leaving the pilot skills as they are
ClearFilters_KeepsSkills ==
    /\ search' = <<>>
    /\ filterState' = <<>>
    /\ selectedSort' = "name"
    /\ selectedSortDirection' = "asc"
    /\ availableNamesCache' = CacheAfterAdvOptions(<<>>, <<>>, Skills, availableNamesCache)
    /\ UNCHANGED <<pilotGunnerySkill, pilotPilotingSkill, totalRangesCache, expandedView,
                   call, ret>>

ClearFilters ==
    /\ search' = <<>>
    /\ filterState' = <<>>
    /\ selectedSort' = "name"
    /\ selectedSortDirection' = "asc"
    /\ pilotGunnerySkill' = 4
    /\ pilotPilotingSkill' = 5
    /\ totalRangesCache' = calculateTotalRanges([gunnery |-> 4, piloting |-> 5])
    /\ availableNamesCache' =
           CacheAfterAdvOptions(<<>>, <<>>, [gunnery |-> 4, piloting |-> 5], availableNamesCache)
    /\ UNCHANGED <<expandedView, call, ret>>

Next == SetFilterDropdown \/ SetFilterRange \/ SetSearch \/ SetPilotSkills \/ ClearFilters

Spec == Init /\ [][Next]_vars

(***************************************************************************)
(* Properties of the service.                                              *)
(***************************************************************************)
FilteredIds(state) == UnitIds(FilteredRecords(state, search, Skills))

InputsOf(key) == IF key \in RangeKeys THEN RangeInputs(key) ELSE DropdownInputs(key)

\* the values that stand for "no constraint": the empty array, the empty and the
\* all-off selections, the currently available range
InertValues(key, state) ==
    IF key \in RangeKeys
    THEN {AvailableRange(ConfOf(key), state, search, Skills, totalRangesCache)}
    ELSE IF ConfOf(key).multistate
         THEN {[i \in 1..Len(sel) |-> [sel[i] EXCEPT !.state = "off"]] : sel \in DropdownInputs(key)}
         ELSE {<<>>}

\* C1: for every filter that is untouched, setFilter(key, v) with a constraining
\* value followed by setFilter(key, e) with an inert value leaves the filter
\* untouched and filteredUnits holding the records it held before the first call.
C1_ApplyThenRemoveRestores ==
    LET before == FilteredIds(filterState)
    IN  \A key \in FilterKeys :
            ~Interacted(filterState, key) =>
                \A v \in InputsOf(key) :
                    LET stored == setFilter(filterState, key, v, search, Skills, totalRangesCache)
                        applied == FlushEffects(stored, search, Skills, totalRangesCache)
                    IN  Interacted(stored, key) =>
                            \A e \in InertValues(key, applied) :
                                LET removed == AfterSetFilter(applied, key, e, search, Skills,
                                                              totalRangesCache)
                                IN  /\ ~Interacted(removed, key)
                                    /\ FilteredIds(removed) = before

\* a filter that was set and removed again sits untouched beside a touched one, and
\* applying it once more would drop records
C1_Witness ==
    \E key \in FilterKeys :
        /\ HasKey(filterState, key) /\ ~Interacted(filterState, key)
        /\ \E other \in FilterKeys : Interacted(filterState, other)
        /\ \E v \in InputsOf(key) :
               LET applied == AfterSetFilter(filterState, key, v, search, Skills, totalRangesCache)
               IN  Interacted(applied, key) /\ FilteredIds(applied) # FilteredIds(filterState)

\* C7: under a touched range filter whose field declares ignored values, a record
\* carrying an ignored value is kept iff the stored lower bound is exactly 0,
\* whatever the upper bound; any other record is kept iff its value is non-null
\* and min <= value <= max.
C7_IgnoredValuesRange ==
    \A key \in {k \in RangeKeys : ConfOf(k).ignoreValues # {}} :
        Interacted(filterState, key) =>
            LET conf == ConfOf(key)
                val == EntryOf(filterState, key).value
                context == ContextUnits(conf, filterState, search, Skills)
            IN  FilteredIds(filterState) =
                    {u.id : u \in {x \in Range(context) :
                        IF x[key] \in conf.ignoreValues
                        THEN val[1] = 0
                        ELSE x[key] # Null /\ val[1] <= x[key] /\ x[key] <= val[2]}}

\* lower bound 0 and an upper bound below another record's value: the record with
\* the ignored value is kept while a record with a real value is dropped
C7_Witness ==
    \E key \in {k \in RangeKeys : ConfOf(k).ignoreValues # {}} :
        /\ Interacted(filterState, key)
        /\ EntryOf(filterState, key).value[1] = 0
        /\ \E u \in Range(Units) : u[key] \in ConfOf(key).ignoreValues /\ u.id \in FilteredIds(filterState)
        /\ \E u \in Range(ContextUnits(ConfOf(key), filterState, search, Skills)) :
               u[key] > EntryOf(filterState, key).value[2] /\ u.id \notin FilteredIds(filterState)

\* C8: the value advOptions exposes for a range filter lies ordered inside the
\* exposed options range; a stored interval that covers the available range is
\* exposed as the available range.
C8_RangeClamp ==
    \A key \in RangeKeys :
        LET avail == AvailableRange(ConfOf(key), filterState, search, Skills, totalRangesCache)
            value == ExposedRangeValue(ConfOf(key), filterState, search, Skills, totalRangesCache)
        IN  /\ avail[1] <= value[1] /\ value[1] <= value[2] /\ value[2] <= avail[2]
            /\ (Interacted(filterState, key)
                /\ EntryOf(filterState, key).value[1] <= avail[1]
                /\ EntryOf(filterState, key).value[2] >= avail[2]) => value = avail

\* a touched range filter stores an interval strictly wider than what is available,
\* another one stores an inverted interval
C8_Witness ==
    /\ \E key \in RangeKeys :
           LET avail == AvailableRange(ConfOf(key), filterState, search, Skills, totalRangesCache)
           IN  /\ Interacted(filterState, key)
               /\ EntryOf(filterState, key).value[1] < avail[1]
               /\ EntryOf(filterState, key).value[2] > avail[2]
    /\ \E key \in RangeKeys :
           /\ Interacted(filterState, key)
           /\ EntryOf(filterState, key).value[1] > EntryOf(filterState, key).value[2]

(***************************************************************************)
(* The codec on one multistate selection: encode, then decode.             *)
(***************************************************************************)
MaxCount == 3

MultiStates == {"off", "or", "and", "not"}

SelectionEntries(key) ==
    [name : IF key = "componentName" THEN {"L", "M L"} ELSE {"Q1", "Q2"},
     state : MultiStates, count : 1..MaxCount]

Selections(key) ==
    {<<e>> : e \in SelectionEntries(key)}
        \cup {<<p[1], p[2]>> :
                 p \in {q \in SelectionEntries(key) \X SelectionEntries(key) : q[1].name # q[2].name}}

CodecCalls ==
    UNION {{[op |-> "codec", key |-> k, value |-> v] : v \in Selections(k)} :
              k \in {"componentName", "quirks"}}

\* the service as constructed, with one call of a pure function pending
PureInit(calls) ==
    /\ filterState = <<>>
    /\ search = <<>>
    /\ selectedSort = "name"
    /\ selectedSortDirection = "asc"
    /\ pilotGunnerySkill = 4
    /\ pilotPilotingSkill = 5
    /\ expandedView = FALSE
    /\ totalRangesCache = calculateTotalRanges([gunnery |-> 4, piloting |-> 5])
    /\ availableNamesCache =
           CacheAfterAdvOptions(<<>>, <<>>, [gunnery |-> 4, piloting |-> 5], {})
    /\ call \in calls
    /\ ret = NoRet

CodecInit == PureInit(CodecCalls)

CodecEncode ==
    /\ call.op = "codec"
    /\ ret = NoRet
    /\ ret' = [done |-> FALSE,
               param |-> generateCompactFiltersParam(
                             <<[key |-> call.key, value |-> call.value, interactedWith |-> TRUE]>>)]
    /\ UNCHANGED <<serviceVars, call>>

CodecDecode ==
    /\ call.op = "codec"
    /\ ~ret.done
    /\ ret # NoRet
    /\ ret' = [done |-> TRUE,
               param |-> ret.param,
               state |-> IF ret.param.isNull THEN <<>>
                         ELSE parseCompactFiltersFromUrl(ret.param.text)]
    /\ UNCHANGED <<serviceVars, call>>

CodecNext == CodecEncode \/ CodecDecode

SpecCodec == CodecInit /\ [][CodecNext]_vars

\* parseCompactFiltersFromUrl(generateCompactFiltersParam(state)); a null
\* parameter leaves nothing to parse
RoundTrip(state) ==
    LET g == generateCompactFiltersParam(state)
    IN  IF g.isNull THEN <<>> ELSE parseCompactFiltersFromUrl(g.text)

\* the non-off entries of a selection as (name text, state, count) triples
LiveTriples(selection) ==
    {<<Chars(selection[i].name), selection[i].state, selection[i].count>> :
        i \in {j \in 1..Len(selection) : selection[j].state # "off"}}

DecodedTriples(selection) ==
    {<<selection[i].name, selection[i].state, selection[i].count>> : i \in 1..Len(selection)}

TouchedKeys(state) == {k \in FilterKeys : Interacted(state, k)}

\* every selected dropdown name of the state is an option the dataset offers
AllAvailable(state) ==
    \A k \in TouchedKeys(state) :
        LET conf == ConfOf(k)
            val == EntryOf(state, k).value
        IN  conf.type = "dropdown" =>
                \A i \in 1..Len(val) :
                    (IF conf.multistate THEN val[i].name ELSE val[i])
                        \in getAvailableDropdownValues(conf)

\* the decoded state carries, for every touched filter of the original, the same value
CodecEquivalent(orig, decoded) ==
    /\ {decoded[i].key : i \in 1..Len(decoded)} = TouchedKeys(orig)
    /\ \A k \in TouchedKeys(orig) :
           HasKey(decoded, k) =>
               LET conf == ConfOf(k)
                   a == EntryOf(orig, k).value
                   b == EntryOf(decoded, k).value
               IN  IF conf.type = "range" THEN b = a
                   ELSE IF conf.multistate THEN DecodedTriples(b) = LiveTriples(a)
                   ELSE Range(b) = {Chars(a[i]) : i \in 1..Len(a)}

\* C2: encoding the Filter State to the compact URL format and decoding the
\* result gives an equivalent state for every touched filter (same keys, range
\* bounds, plain dropdown value sets, and name/state/count of every non-off
\* multistate entry) when all selected values are available options.
C2_CodecRoundTrip ==
    AllAvailable(filterState) => CodecEquivalent(filterState, RoundTrip(filterState))

\* C3: decoding an encoded multistate selection gives back exactly its non-off
\* entries, each with its name, state and count, for every state and every
\* count, counts above one under and / not included.
C3_MultistateEntryInverse ==
    (call.op = "codec" /\ ret.done) =>
        LET decoded == IF HasKey(ret.state, call.key)
                       THEN EntryOf(ret.state, call.key).value ELSE <<>>
        IN  DecodedTriples(decoded) = LiveTriples(call.value)

(***************************************************************************)
(* filterUnitsByMultiState on one record list and one selection.           *)
(***************************************************************************)
MatcherUnitLists == {Units, SubSeq(Units, 1, 2), <<Units[3], Units[1]>>, <<Units[4]>>}

MatcherCalls ==
    UNION {{[op |-> "matcher", key |-> k, selection |-> sel, units |-> us] :
               sel \in Selections(k) \cup {<<>>}, us \in MatcherUnitLists} :
              k \in {"componentName", "quirks"}}

MatcherInit == PureInit(MatcherCalls)

MatcherCall ==
    /\ call.op = "matcher"
    /\ ret = NoRet
    /\ ret' = [done |-> TRUE,
               units |-> filterUnitsByMultiState(call.units, call.key, call.selection)]
    /\ UNCHANGED <<serviceVars, call>>

SpecMatcher == MatcherInit /\ [][MatcherCall]_vars

\* the record possesses a name the selection carries in state not
HasNotName(unit, key, selection) ==
    \E e \in Range(selection) : e.state = "not" /\ e.name \in UnitDataNames(unit, key)

\* C4: with no entry in state or / and / not the record list comes back
\* unchanged; a record possessing a name selected with state not is rejected
\* whatever the or and and entries and their counts are.
C4_TriStateMatcher ==
    (call.op = "matcher" /\ ret.done) =>
        /\ (\A e \in Range(call.selection) : e.state = "off") => ret.units = call.units
        /\ \A u \in Range(call.units) :
               HasNotName(u, call.key, call.selection) => u \notin Range(ret.units)

\* a record that satisfies an or entry asking for two of a name it carries twice,
\* possesses the not-name, and was rejected
C4_Witness ==
    /\ call.op = "matcher"
    /\ ret.done
    /\ \E u \in Range(call.units) :
           /\ HasNotName(u, call.key, call.selection)
           /\ \E e \in Range(call.selection) :
                  /\ e.state = "or"
                  /\ e.count > 1
                  /\ UnitDataCount(u, call.key, e.name) >= e.count
           /\ u \notin Range(ret.units)

(***************************************************************************)
(* tokensMatchNonOverlapping on one record text and one prepared word list.*)
(***************************************************************************)
MaxFieldLen == 3

MaxTokenLen == 2

MaxTokens == 2

\* the sequences over S of length lo..hi
SeqsOf(S, lo, hi) == UNION {[1..k -> S] : k \in lo..hi}

\* `${unit._chassis ?? ''} ${unit._model ?? ''}`
TokenTexts ==
    {p[1] \o <<" ">> \o p[2] :
        p \in SeqsOf({"a", "b"}, 0, MaxFieldLen) \X SeqsOf({"a", "b"}, 0, MaxFieldLen)}

\* word lists as filteredUnits hands them over: non-empty words without
\* whitespace, no word twice, longest first
TokenLists ==
    {ws \in SeqsOf(SeqsOf({"a", "b"}, 1, MaxTokenLen), 0, MaxTokens) :
        /\ \A i, j \in 1..Len(ws) : i # j => ws[i] # ws[j]
        /\ \A i \in 1..(Len(ws) - 1) : Len(ws[i]) >= Len(ws[i + 1])}

TokenCalls == {[op |-> "tokens", text |-> p[1], tokens |-> p[2]] : p \in TokenTexts \X TokenLists}

TokensInit == PureInit(TokenCalls)

TokensCall ==
    /\ call.op = "tokens"
    /\ ret = NoRet
    /\ ret' = [done |-> TRUE, match |-> tokensMatchNonOverlapping(call.text, call.tokens)]
    /\ UNCHANGED <<serviceVars, call>>

SpecTokens == TokensInit /\ [][TokensCall]_vars

\* some choice of one occurrence per token, the chosen occurrences pairwise
\* non-overlapping
ExistsAssignment(text, tokens) ==
    \E at \in [1..Len(tokens) -> 0..Len(text)] :
        /\ \A i \in 1..Len(tokens) :
               /\ at[i] + Len(tokens[i]) <= Len(text)
               /\ SubSeq(text, at[i] + 1, at[i] + Len(tokens[i])) = tokens[i]
        /\ \A i, j \in 1..Len(tokens) :
               i # j => \/ at[i] + Len(tokens[i]) <= at[j]
                        \/ at[i] >= at[j] + Len(tokens[j])

\* C5: a record text matches the terms of one OR-group exactly when every term
\* can be given one occurrence in the text, the occurrences pairwise
\* non-overlapping.
C5_MatchIffAssignment ==
    (call.op = "tokens" /\ ret.done) =>
        (ret.match <=> ExistsAssignment(call.text, call.tokens))

(***************************************************************************)
(* The text stage of filteredUnits on one query.                           *)
(***************************************************************************)
MaxQueryLen == 4

QueryChars == {"a", "b", "A", "a^", " ", ",", ";"}

SearchCalls == {[op |-> "search", query |-> q] : q \in SeqsOf(QueryChars, 0, MaxQueryLen)}

SearchInit == PureInit(SearchCalls)

SearchCall ==
    /\ call.op = "search"
    /\ ret = NoRet
    /\ ret' = [done |-> TRUE, units |-> TextFilter(Units, call.query)]
    /\ UNCHANGED <<serviceVars, call>>

SpecSearch == SearchInit /\ [][SearchCall]_vars

\* the groups of a query: its maximal stretches free of commas and semicolons,
\* trimmed, the empty ones left out
GroupsOf(q) ==
    LET IsSep(i) == i < 1 \/ i > Len(q) \/ q[i] \in {",", ";"}
        stretches == {SubSeq(q, p[1], p[2]) :
                        p \in {x \in (1..Len(q)) \X (1..Len(q)) :
                                 /\ x[1] <= x[2]
                                 /\ IsSep(x[1] - 1)
                                 /\ IsSep(x[2] + 1)
                                 /\ \A i \in x[1]..x[2] : ~IsSep(i)}}
    IN  {Trim(g) : g \in stretches} \ {<<>>}

\* C6: the query is split on commas and semicolons into OR-groups and a record
\* passes the text stage exactly when it matches at least one group; with an
\* empty trimmed query every record passes.
C6_OrGroups ==
    (call.op = "search" /\ ret.done) =>
        LET query == ToLowerCase(Trim(call.query))
        IN  /\ Len(query) = 0 => ret.units = Units
            /\ Len(query) > 0 =>
                   \A i \in 1..Len(Units) :
                       Units[i] \in Range(ret.units)
                           <=> \E g \in GroupsOf(query) : matchesWords(Units[i], GroupWords(g))

\* a query of two groups and a record kept although it matches only one of them
C6_Witness ==
    /\ call.op = "search"
    /\ ret.done
    /\ LET groups == GroupsOf(ToLowerCase(Trim(call.query)))
       IN  \E u \in Range(ret.units) :
               \E g1, g2 \in groups :
                   /\ g1 # g2
                   /\ ~matchesWords(u, GroupWords(g1))
                   /\ matchesWords(u, GroupWords(g2))

(***************************************************************************)
(* Dropdown option ordering: naturalCompare and smartDropdownSort.         *)
(***************************************************************************)
\* the parts /^([^\d]*)(\d+)?(.*)$/ captures: the longest digit-free start, the
\* digit run that follows it (possibly empty), the rest
RegexMatch(s) ==
    LET n1 == SetMax({k \in 0..Len(s) : \A i \in 1..k : s[i] \notin Range(Digits)})
        rest == SubSeq(s, n1 + 1, Len(s))
        n2 == SetMax({k \in 0..Len(rest) : \A i \in 1..k : rest[i] \in Range(Digits)})
    IN  [m1 |-> SubSeq(s, 1, n1), m2 |-> SubSeq(rest, 1, n2),
         m3 |-> SubSeq(rest, n2 + 1, Len(rest))]

\* prefixA / prefixB
NaturalPrefix(s) == Trim(RegexMatch(s).m1 \o RegexMatch(s).m3)

\* numA / numB
NaturalNum(s) ==
    IF Len(RegexMatch(s).m2) > 0
    THEN [isNaN |-> FALSE, val |-> DigitsValue(RegexMatch(s).m2)]
    ELSE NaN

\* collation rank of a character of the option alphabet: whitespace, then
\* punctuation, then digits, then letters
CharRank(c) ==
    CASE c = " " -> 0
      [] c = "*" -> 1
      [] c \in Range(Digits) -> 2 + DigitVal(c)
      [] c = "a" -> 10
      [] c = "b" -> 11
      [] c = "L" -> 12
      [] c = "M" -> 13

\* String.prototype.localeCompare on texts of the option alphabet: -1, 0 or 1
localeCompare(a, b) ==
    LET n == MathMin(Len(a), Len(b))
        diff == {i \in 1..n : a[i] # b[i]}
    IN  IF diff = {}
        THEN IF Len(a) < Len(b) THEN -1 ELSE IF Len(a) > Len(b) THEN 1 ELSE 0
        ELSE IF CharRank(a[SetMin(diff)]) < CharRank(b[SetMin(diff)]) THEN -1 ELSE 1

\* naturalCompare comparing the numbers of equal prefixes as texts
naturalCompare_Lexical(a, b) ==
    IF NaturalPrefix(a) = NaturalPrefix(b)
    THEN IF ~NaturalNum(a).isNaN /\ ~NaturalNum(b).isNaN
         THEN localeCompare(RegexMatch(a).m2, RegexMatch(b).m2)
         ELSE IF ~NaturalNum(a).isNaN THEN -1
         ELSE IF ~NaturalNum(b).isNaN THEN 1
         ELSE localeCompare(a, b)
    ELSE localeCompare(NaturalPrefix(a), NaturalPrefix(b))

naturalCompare(a, b) ==
    IF NaturalPrefix(a) = NaturalPrefix(b)
    THEN IF ~NaturalNum(a).isNaN /\ ~NaturalNum(b).isNaN
         THEN NaturalNum(a).val - NaturalNum(b).val
         ELSE IF ~NaturalNum(a).isNaN THEN -1
         ELSE IF ~NaturalNum(b).isNaN THEN 1
         ELSE localeCompare(a, b)
    ELSE localeCompare(NaturalPrefix(a), NaturalPrefix(b))

\* Array.prototype.sort(naturalCompare): a stable insertion sort
RECURSIVE InsertNatural(_, _)
InsertNatural(sorted, x) ==
    IF Len(sorted) = 0 THEN <<x>>
    ELSE IF naturalCompare(sorted[Len(sorted)], x) > 0
         THEN Append(InsertNatural(SubSeq(sorted, 1, Len(sorted) - 1), x), sorted[Len(sorted)])
         ELSE Append(sorted, x)

RECURSIVE SortNatural(_)
SortNatural(s) ==
    IF Len(s) = 0 THEN <<>>
    ELSE InsertNatural(SortNatural(SubSeq(s, 1, Len(s) - 1)), s[Len(s)])

\* optionsSet.delete that deletes nothing
DeleteOption_Keep(optionsSet, opt) == optionsSet

\* optionsSet.delete(opt)
DeleteOption(optionsSet, opt) == Filter(optionsSet, LAMBDA o : o # opt)

RECURSIVE DeleteEach(_, _)
DeleteEach(optionsSet, matches) ==
    IF Len(matches) = 0 THEN optionsSet
    ELSE DeleteEach(DeleteOption(optionsSet, Head(matches)), Tail(matches))

\* the loop over predefinedOrder, from its i-th entry on
RECURSIVE SmartSortFrom(_, _, _, _)
SmartSortFrom(predefinedOrder, i, optionsSet, sortedOptions) ==
    IF i > Len(predefinedOrder) THEN sortedOptions \o SortNatural(optionsSet)
    ELSE LET predefinedOpt == predefinedOrder[i]
             prefix == SubSeq(predefinedOpt, 1, Len(predefinedOpt) - 1)
             matchingOptions ==
                 SortNatural(Filter(optionsSet, LAMBDA o :
                     Len(prefix) <= Len(o) /\ SubSeq(o, 1, Len(prefix)) = prefix))
         IN  IF Len(predefinedOpt) > 0 /\ predefinedOpt[Len(predefinedOpt)] = "*"
             THEN SmartSortFrom(predefinedOrder, i + 1, DeleteEach(optionsSet, matchingOptions),
                                sortedOptions \o matchingOptions)
             ELSE IF Includes(optionsSet, predefinedOpt)
             THEN SmartSortFrom(predefinedOrder, i + 1, DeleteOption(optionsSet, predefinedOpt),
                                Append(sortedOptions, predefinedOpt))
             ELSE SmartSortFrom(predefinedOrder, i + 1, optionsSet, sortedOptions)

smartDropdownSort(options, predefinedOrder) ==
    IF Len(predefinedOrder) > 0
    THEN SmartSortFrom(predefinedOrder, 1, Dedupe(options), <<>>)
    ELSE SortNatural(options)

MaxOptions == 3

MaxOrder == 2

OptionPool == {<<"M">>, <<"M", "1">>, <<"M", "2">>, <<"M", "1", "0">>, <<"L", "2">>}

OrderPool == {<<"M">>, <<"M", "*">>, <<"M", "1", "*">>, <<"L">>}

\* lists of distinct option names
OptionLists ==
    {os \in SeqsOf(OptionPool, 0, MaxOptions) : \A i, j \in 1..Len(os) : i # j => os[i] # os[j]}

SortCalls ==
    {[op |-> "sort", options |-> p[1], predefinedOrder |-> p[2]] :
        p \in OptionLists \X SeqsOf(OrderPool, 0, MaxOrder)}

SortInit == PureInit(SortCalls)

SortCall ==
    /\ call.op = "sort"
    /\ ret = NoRet
    /\ ret' = [done |-> TRUE, list |-> smartDropdownSort(call.options, call.predefinedOrder)]
    /\ UNCHANGED <<serviceVars, call>>

SpecSort == SortInit /\ [][SortCall]_vars

\* C9: smartDropdownSort returns a permutation of its distinct input options for
\* any predefined order, wildcard entries and a plain and a wildcard entry
\* matching the same option included: every option exactly once, nothing else.
C9_SmartSortPermutation ==
    (call.op = "sort" /\ ret.done) =>
        /\ Len(ret.list) = Len(call.options)
        /\ \A o \in Range(call.options) \cup Range(ret.list) :
               /\ Cardinality({i \in 1..Len(ret.list) : ret.list[i] = o}) = 1
               /\ o \in Range(call.options)

\* the plain entry "M" and the wildcard entry "M*" both match the option "M", and
\* the wildcard matches more
C9_Witness ==
    /\ call.op = "sort"
    /\ ret.done
    /\ Includes(call.predefinedOrder, <<"M">>)
    /\ Includes(call.predefinedOrder, <<"M", "*">>)
    /\ Includes(call.options, <<"M">>)
    /\ Includes(call.options, <<"M", "2">>)
    /\ Len(ret.list) = Len(call.options)

\* C10: sorting with naturalCompare puts strings of the same non-digit text in
\* the order of the numeric value of their embedded integer (M2, M10, M1 become
\* M1, M2, M10), and a string carrying a number before one carrying none.
C10_NaturalOrder ==
    (call.op = "sort" /\ ret.done /\ Len(call.predefinedOrder) = 0) =>
        /\ \A i, j \in 1..Len(ret.list) :
               (i < j /\ NaturalPrefix(ret.list[i]) = NaturalPrefix(ret.list[j])) =>
                   LET x == NaturalNum(ret.list[i])
                       y == NaturalNum(ret.list[j])
                   IN  /\ (~x.isNaN /\ ~y.isNaN) => x.val <= y.val
                       /\ ~(x.isNaN /\ ~y.isNaN)
        /\ call.options = << <<"M", "2">>, <<"M", "1", "0">>, <<"M", "1">> >> =>
               ret.list = << <<"M", "1">>, <<"M", "2">>, <<"M", "1", "0">> >>

\* the list M2, M10, M1 sorted to M1, M2, M10
C10_Witness ==
    /\ call.op = "sort"
    /\ ret.done
    /\ Len(call.predefinedOrder) = 0
    /\ call.options = << <<"M", "2">>, <<"M", "1", "0">>, <<"M", "1">> >>
    /\ ret.list = << <<"M", "1">>, <<"M", "2">>, <<"M", "1", "0">> >>

(***************************************************************************)
(* Order and number of the parts of the compact parameter.                 *)
(***************************************************************************)
\* the '|' separated parts of the parameter generated for the Filter State
EmittedParts ==
    LET g == generateCompactFiltersParam(filterState)
    IN  IF g.isNull THEN <<>> ELSE SplitAt(g.text, {"|"})

\* part is key ':' payload with a non-empty payload
IsEntryOf(part, key) ==
    /\ Len(part) > Len(Chars(key)) + 1
    /\ SubSeq(part, 1, Len(Chars(key)) + 1) = Chars(key) \o <<":">>

\* the touched keys in the order Filter State holds them
TouchedInStateOrder ==
    LET touched == Filter(filterState, LAMBDA e : e.interactedWith)
    IN  [i \in 1..Len(touched) |-> touched[i].key]

\* the touched keys in the order ADVANCED_FILTERS defines them
TouchedInDefinitionOrder ==
    LET touched == Filter(ADVANCED_FILTERS, LAMBDA c : Interacted(filterState, c.key))
    IN  [i \in 1..Len(touched) |-> touched[i].key]

\* C11 (as amended): the parameter holds one key:payload part for each touched
\* filter and none for an untouched one, joined by '|', in the order in which
\* Filter State holds the keys.
C11_PartsInStateOrder ==
    /\ Len(EmittedParts) = Len(TouchedInStateOrder)
    /\ \A i \in 1..Len(EmittedParts) : IsEntryOf(EmittedParts[i], TouchedInStateOrder[i])

\* C11 (as stated): one part per touched filter, none for an untouched one, in
\* the order of ADVANCED_FILTERS whatever the order the filters were set in.
C11_PartsInDefinitionOrder ==
    /\ Len(EmittedParts) = Len(TouchedInDefinitionOrder)
    /\ \A i \in 1..Len(EmittedParts) : IsEntryOf(EmittedParts[i], TouchedInDefinitionOrder[i])

\* two touched filters, set against the definition order, and two parts
C11_Witness ==
    /\ Len(TouchedInStateOrder) = 2
    /\ TouchedInStateOrder # TouchedInDefinitionOrder
    /\ Len(EmittedParts) = 2

(***************************************************************************)
(* One-time restoration of the state from the page URL.                    *)
(***************************************************************************)
\* the sort keys offered: 'name' and the filters that can be sorted on
SORT_OPTIONS ==
    <<"name">> \o
        LET sortable == Filter(ADVANCED_FILTERS,
                               LAMBDA f : f.key \notin {"era", "faction", "componentName", "source"})
        IN  [i \in 1..Len(sortable) |-> sortable[i].key]

\* the available option name a decoded text spells, as a set (empty when unknown)
AvailableNamed(conf, text) == {n \in getAvailableDropdownValues(conf) : Chars(n) = text}

\* ValidEntry without the test that a validated selection is not empty
ValidEntry_KeepsEmpty(entry) ==
    LET conf == ConfOf(entry.key)
        Known(text) == AvailableNamed(conf, text) # {}
        NameOf(text) == CHOOSE n \in AvailableNamed(conf, text) : TRUE
    IN  IF conf.type = "dropdown"
        THEN IF conf.multistate
             THEN LET valid == Filter(entry.value, LAMBDA e : Known(e.name))
                      validSelection == [i \in 1..Len(valid) |->
                                            [valid[i] EXCEPT !.name = NameOf(valid[i].name)]]
                  IN  <<[key |-> entry.key, value |-> validSelection, interactedWith |-> TRUE]>>
             ELSE LET valid == Filter(entry.value, Known)
                      validValues == [i \in 1..Len(valid) |-> NameOf(valid[i])]
                  IN  <<[key |-> entry.key, value |-> validValues, interactedWith |-> TRUE]>>
        ELSE <<entry>>

\* what one parsed entry contributes to validFilters: nothing or one entry
ValidEntry(entry) ==
    LET conf == ConfOf(entry.key)
        Known(text) == AvailableNamed(conf, text) # {}
        NameOf(text) == CHOOSE n \in AvailableNamed(conf, text) : TRUE
    IN  IF conf.type = "dropdown"
        THEN IF conf.multistate
             THEN LET valid == Filter(entry.value, LAMBDA e : Known(e.name))
                      validSelection == [i \in 1..Len(valid) |->
                                            [valid[i] EXCEPT !.name = NameOf(valid[i].name)]]
                  IN  IF Len(validSelection) > 0
                      THEN <<[key |-> entry.key, value |-> validSelection,
                              interactedWith |-> TRUE]>>
                      ELSE <<>>
             ELSE LET valid == Filter(entry.value, Known)
                      validValues == [i \in 1..Len(valid) |-> NameOf(valid[i])]
                  IN  IF Len(validValues) > 0
                      THEN <<[key |-> entry.key, value |-> validValues,
                              interactedWith |-> TRUE]>>
                      ELSE <<>>
        ELSE <<entry>>

\* the Filter State the 'filters' parameter restores, decodedFilters being
\* decodeURIComponent(filtersParam) and parsedFilters what is parsed from it;
\* [set |-> FALSE] when the parameter is missing or its decoding threw before
\* filterState.set
RestoredFilters(filtersParam, decodedFilters, parsedFilters) ==
    IF Len(filtersParam) = 0 \/ ~decodedFilters.ok THEN [set |-> FALSE, state |-> <<>>]
    ELSE [set |-> TRUE,
          state |-> Flatten([i \in 1..Len(parsedFilters) |->
                                IF parsedFilters[i].key \in FilterKeys
                                THEN ValidEntry(parsedFilters[i])
                                ELSE <<>>])]

\* RestoredSkill without the test of the range 0..8
RestoredSkill_NoRangeTest(param, current) ==
    LET n == ParseNumber(param)
    IN  IF Len(param) > 0 /\ ~n.isNaN THEN n.val ELSE current

\* the skill a 'gunnery' / 'piloting' parameter restores
RestoredSkill(param, current) ==
    LET n == ParseNumber(param)
    IN  IF Len(param) > 0 /\ ~n.isNaN /\ n.val >= 0 /\ n.val <= 8 THEN n.val ELSE current

\* the query parameters the page is opened with; an absent parameter is the empty
\* text (the loader treats both alike)
MaxSegments == 2

WellFormedSegments ==
    { Chars("type") \o <<":">> \o Chars("Tank"),
      Chars("bv") \o <<":", "2", "-", "3">>,
      Chars("quirks") \o <<":">> \o Chars("Q1") \o <<"!">> }

\* no ':', an unknown key, a range without '-', a range with a non-numeric bound
SkippedSegments ==
    { Chars("heat"),
      <<"z", "z", ":", "1">>,
      Chars("heat") \o <<":", "2", "3">>,
      Chars("heat") \o <<":", "a", "-", "3">> }

\* a name with an invalid percent escape, written raw and written escaped once
UndecodableSegments ==
    { Chars("faction") \o <<":", "%">>,
      Chars("era") \o <<":", "%", "2", "5">> }

\* selections naming options the dataset does not have
UnknownNameSegments ==
    { Chars("type") \o <<":">> \o Chars("Tank") \o <<",", "Z", "e", "d">>,
      Chars("quirks") \o <<":", "Z", "z">>,
      Chars("componentName") \o <<":", "L", ".", "~", "2", ",", "M", "%", "2", "0", "L">>,
      Chars("era") \o <<":", "E", "9", ",">> \o Chars("E1") }

SegmentLists ==
    {l \in SeqsOf(WellFormedSegments \cup SkippedSegments \cup UndecodableSegments
                      \cup UnknownNameSegments, 0, MaxSegments) :
        \A i, j \in 1..Len(l) : i # j => l[i] # l[j]}

SkillParams == {<<>>, <<"0">>, <<"3">>, <<"8">>, <<"9">>, <<"-", "1">>, <<"x">>}

NoParams ==
    [op |-> "startup", segments |-> <<>>, filters |-> <<>>, gunnery |-> <<>>,
     piloting |-> <<>>, expanded |-> <<>>, q |-> <<>>, sort |-> <<>>, sortDir |-> <<>>]

StartupCalls ==
    {[NoParams EXCEPT !.segments = l, !.filters = Join(l, <<"|">>), !.gunnery = g] :
        l \in SegmentLists, g \in {<<>>, <<"3">>}}
    \cup {[NoParams EXCEPT !.gunnery = g, !.piloting = p] : g \in SkillParams, p \in SkillParams}
    \cup {[NoParams EXCEPT !.expanded = e, !.q = q, !.sort = s, !.sortDir = d] :
            e \in {<<>>, <<"t", "r", "u", "e">>},
            q \in {<<>>, <<"B", "%", "2", "0", "a">>, <<"%">>},
            s \in {<<>>, Chars("bv"), Chars("era")},
            d \in {<<>>, <<"d", "e", "s", "c">>, <<"u", "p">>}}

\* the writes of the effect once the parameters are read: q is the decoded 'q',
\* restored what the 'filters' parameter gives, sk the skills the 'gunnery' and
\* 'piloting' parameters give.  A malformed escape in 'q' throws out of the
\* effect before urlStateInitialized is set.
RestoreFromUrl(q, restored, sk) ==
    \E state \in {IF restored.set THEN restored.state ELSE filterState},
       cache \in {calculateTotalRanges(sk)},
       query \in {IF Len(call.q) > 0 THEN q.val ELSE search},
       sorts \in {{k \in Range(SORT_OPTIONS) : Chars(k) = call.sort}} :
        /\ expandedView' = (IF call.expanded = <<"t", "r", "u", "e">> THEN TRUE ELSE expandedView)
        /\ IF Len(call.q) > 0 /\ ~q.ok
           THEN /\ ret' = [done |-> TRUE, urlStateInitialized |-> FALSE, validFilters |-> <<>>]
                /\ UNCHANGED <<filterState, search, selectedSort, selectedSortDirection,
                               pilotGunnerySkill, pilotPilotingSkill, totalRangesCache,
                               availableNamesCache>>
           ELSE /\ search' = query
                /\ selectedSort' = (IF sorts # {} THEN CHOOSE k \in sorts : TRUE
                                    ELSE selectedSort)
                /\ selectedSortDirection' =
                       (IF call.sortDir = <<"d", "e", "s", "c">> THEN "desc"
                        ELSE IF call.sortDir = <<"a", "s", "c">> THEN "asc"
                        ELSE selectedSortDirection)
                /\ pilotGunnerySkill' = sk.gunnery
                /\ pilotPilotingSkill' = sk.piloting
                /\ totalRangesCache' = cache
                /\ filterState' = FlushEffects(state, query, sk, cache)
                /\ availableNamesCache' =
                       CacheAfterEffects(state, query, sk, cache, availableNamesCache)
                /\ ret' = [done |-> TRUE, urlStateInitialized |-> TRUE,
                           validFilters |-> state]

\* the guarded body of the effect: the parameters are read and decoded, then written
RestoreParams ==
    \E q \in {decodeURIComponent(call.q)}, decodedFilters \in {decodeURIComponent(call.filters)} :
        \E parsedFilters \in {parseCompactFiltersFromUrl(decodedFilters.val)} :
            \E restored \in {RestoredFilters(call.filters, decodedFilters, parsedFilters)},
               sk \in {[gunnery |-> RestoredSkill(call.gunnery, pilotGunnerySkill),
                        piloting |-> RestoredSkill(call.piloting, pilotPilotingSkill)]} :
                RestoreFromUrl(q, restored, sk)

\* the body of the effect, run the first time the data is ready
LoadFiltersFromUrlOnStartup ==
    /\ call.op = "startup"
    /\ ret = NoRet
    /\ RestoreParams
    /\ UNCHANGED call

SpecStartup == PureInit(StartupCalls) /\ [][LoadFiltersFromUrlOnStartup \/ ClearFilters]_vars

(***************************************************************************)
(* Decoding a parameter that holds a malformed segment.                     *)
(***************************************************************************)
\* the entry a well-formed segment of the pool stands for
ExpectedEntry(segment) ==
    CASE segment = Chars("type") \o <<":">> \o Chars("Tank") ->
            [key |-> "type", value |-> <<"Tank">>, interactedWith |-> TRUE]
      [] segment = Chars("bv") \o <<":", "2", "-", "3">> ->
            [key |-> "bv", value |-> <<2, 3>>, interactedWith |-> TRUE]
      [] segment = Chars("quirks") \o <<":">> \o Chars("Q1") \o <<"!">> ->
            [key |-> "quirks", value |-> <<[name |-> "Q1", state |-> "not", count |-> 1]>>,
             interactedWith |-> TRUE]

\* the parameter holds exactly one malformed segment among well-formed ones
OneMalformedSegment ==
    /\ call.op = "startup"
    /\ \A i \in 1..Len(call.segments) :
           call.segments[i] \in WellFormedSegments \cup SkippedSegments \cup UndecodableSegments
    /\ Cardinality({i \in 1..Len(call.segments) :
                       call.segments[i] \notin WellFormedSegments}) = 1

\* C12: when the parameter holds one malformed segment, restoration stores the
\* entry of every well-formed segment before and after it and nothing else, and
\* the loader finishes without an error.
C12_MalformedSegmentSkipped ==
    (ret.done /\ OneMalformedSegment) =>
        /\ ret.urlStateInitialized
        /\ \A i \in 1..Len(call.segments) :
               call.segments[i] \in WellFormedSegments =>
                   ExpectedEntry(call.segments[i]) \in Range(ret.validFilters)
        /\ Len(ret.validFilters) = Len(call.segments) - 1

(***************************************************************************)
(* Validation of the restored dropdown selections against the dataset.     *)
(***************************************************************************)
\* the option names an entry of a dropdown filter selects
SelectedNames(entry) ==
    IF ConfOf(entry.key).multistate
    THEN {entry.value[i].name : i \in 1..Len(entry.value)}
    ELSE Range(entry.value)

\* what restoration keeps of a segment of the pool that names unknown options
KeptOfSegment(segment) ==
    CASE segment = Chars("type") \o <<":">> \o Chars("Tank") \o <<",", "Z", "e", "d">> ->
            <<[key |-> "type", value |-> <<"Tank">>, interactedWith |-> TRUE]>>
      [] segment = Chars("quirks") \o <<":", "Z", "z">> -> <<>>
      [] segment = Chars("componentName")
                       \o <<":", "L", ".", "~", "2", ",", "M", "%", "2", "0", "L">> ->
            <<[key |-> "componentName",
               value |-> <<[name |-> "M L", state |-> "or", count |-> 1]>>,
               interactedWith |-> TRUE]>>
      [] segment = Chars("era") \o <<":", "E", "9", ",">> \o Chars("E1") ->
            <<[key |-> "era", value |-> <<"E1">>, interactedWith |-> TRUE]>>
      [] segment = <<"z", "z", ":", "1">> -> <<>>
      [] segment = Chars("bv") \o <<":", "2", "-", "3">> -> <<ExpectedEntry(segment)>>

\* the restoration ran to its end on a 'filters' parameter
FiltersRestored == call.op = "startup" /\ ret.done /\ ret.urlStateInitialized /\ Len(call.filters) > 0

\* C13: in the Filter State the startup restoration stores, every name of a
\* dropdown filter (plain or multistate) is an option of the loaded dataset for
\* that key, unknown names are dropped, a dropdown filter left without a name is
\* absent, unknown keys are absent, and every stored filter is marked touched;
\* the dropdown filters found in Filter State afterwards are the stored ones.
C13_RestoredNamesKnown ==
    FiltersRestored =>
        /\ \A i \in 1..Len(ret.validFilters) :
               LET e == ret.validFilters[i]
               IN  /\ e.key \in FilterKeys
                   /\ e.interactedWith
                   /\ ConfOf(e.key).type = "dropdown" =>
                          /\ SelectedNames(e) # {}
                          /\ SelectedNames(e) \subseteq getAvailableDropdownValues(ConfOf(e.key))
        /\ (\A i \in 1..Len(call.segments) :
                call.segments[i] \in UnknownNameSegments
                    \cup {<<"z", "z", ":", "1">>, Chars("bv") \o <<":", "2", "-", "3">>}) =>
               ret.validFilters =
                   Flatten([i \in 1..Len(call.segments) |-> KeptOfSegment(call.segments[i])])
        /\ \A i \in 1..Len(filterState) :
               ConfOf(filterState[i].key).type = "dropdown" =>
                   filterState[i] \in Range(ret.validFilters)

\* a parameter with an all-unknown selection and a partly known one restored
C13_Witness ==
    /\ FiltersRestored
    /\ call.segments = << Chars("quirks") \o <<":", "Z", "z">>,
                          Chars("type") \o <<":">> \o Chars("Tank") \o <<",", "Z", "e", "d">> >>
    /\ filterState = <<[key |-> "type", value |-> <<"Tank">>, interactedWith |-> TRUE]>>

(***************************************************************************)
(* The pilot-skill parameters.                                             *)
(***************************************************************************)
\* the skill a parameter of SkillParams restores when values outside 0..8 are
\* ignored
SkillIfIgnored(param, default) ==
    CASE param = <<"0">> -> 0
      [] param = <<"3">> -> 3
      [] param = <<"8">> -> 8
      [] OTHER -> default

\* the skill a parameter of SkillParams restores when values outside 0..8 are
\* clamped
SkillIfClamped(param, default) ==
    CASE param = <<"9">> -> 8
      [] param = <<"-", "1">> -> 0
      [] OTHER -> SkillIfIgnored(param, default)

\* the restoration ran to its end in this step
RestorationStep == LoadFiltersFromUrlOnStartup /\ ret'.urlStateInitialized

\* C14 (as amended): a gunnery or piloting parameter holding an integer from 0 to
\* 8 sets the skill to it; an integer above 8 or below 0, like a non-numeric
\* value, leaves the skill at its default (gunnery 4, piloting 5).
C14_SkillOutsideRangeIgnored ==
    [][RestorationStep =>
           /\ pilotGunnerySkill' = SkillIfIgnored(call.gunnery, 4)
           /\ pilotPilotingSkill' = SkillIfIgnored(call.piloting, 5)]_vars

\* C14 (as stated): the parameters are clamped to 0..8: above 8 gives 8, below 0
\* gives 0, a non-numeric value leaves the default.
C14_SkillClamped ==
    [][RestorationStep =>
           /\ pilotGunnerySkill' = SkillIfClamped(call.gunnery, 4)
           /\ pilotPilotingSkill' = SkillIfClamped(call.piloting, 5)]_vars

\* gunnery=9 and piloting=3 restored: gunnery stays 4, piloting is 3
C14_Witness ==
    /\ call.op = "startup"
    /\ ret.done
    /\ call.gunnery = <<"9">>
    /\ call.piloting = <<"3">>
    /\ pilotGunnerySkill = 4
    /\ pilotPilotingSkill = 3

(***************************************************************************)
(* The external (era / faction) stage of the pipeline on its own.          *)
(***************************************************************************)
MaxNames == 2

\* the lists of distinct names a dropdown can hold
NameLists(names) ==
    {l \in SeqsOf(names, 0, MaxNames) : \A i, j \in 1..Len(l) : i # j => l[i] # l[j]}

\* Filter States holding era and faction only, as setFilter stores them
ExternalCalls ==
    {[op |-> "external", era |-> e, faction |-> f,
      state |-> <<[key |-> "era", value |-> e, interactedWith |-> Len(e) > 0],
                  [key |-> "faction", value |-> f, interactedWith |-> Len(f) > 0]>>] :
        e \in NameLists({"E1", "E2", "E9"}), f \in NameLists({"Extinct", "F1", "F2"})}

ExternalCall ==
    /\ call.op = "external"
    /\ ~ret.done
    /\ ret' = [done |-> TRUE,
               ids |-> UnitIds(applyFilters(Units, call.state, [gunnery |-> 4, piloting |-> 5]))]
    /\ UNCHANGED <<serviceVars, call>>

SpecExternal == PureInit(ExternalCalls) /\ [][ExternalCall]_vars

\* the record is a member of a selected era and not extinct for that era
InEraSet(id, eraNames) ==
    \E e \in Range(Eras) :
        /\ Includes(eraNames, e.name)
        /\ id \in e.units
        /\ ~\E f \in Range(Factions) :
               f.id = FACTION_EXTINCT /\ e.id \in DOMAIN f.eras /\ id \in f.eras[e.id]

\* the record is in a per-era set of a selected faction, only the selected eras
\* counting when an era is selected
InFactionSet(id, factionNames, eraNames) ==
    \E f \in Range(Factions) :
        /\ Includes(factionNames, f.name)
        /\ \E eraId \in DOMAIN f.eras :
               /\ id \in f.eras[eraId]
               /\ (\E e \in Range(Eras) : Includes(eraNames, e.name)) =>
                      \E e \in Range(Eras) : Includes(eraNames, e.name) /\ e.id = eraId

\* C15: with era and faction both touched a record passes the external stage
\* iff its id is in the era id set and in the faction id set restricted to the
\* selected eras; with only one of them touched that filter's set decides alone.
C15_EraFactionIntersect ==
    (call.op = "external" /\ ret.done) =>
        ret.ids =
            {id \in UnitIds(Units) :
                /\ Len(call.era) > 0 => InEraSet(id, call.era)
                /\ Len(call.faction) > 0 => InFactionSet(id, call.faction, call.era)}

\* C16: with only the era filter touched a record passes iff it is a member of
\* a selected era for which it is not extinct; being extinct for one selected
\* era does not remove a record that is a non-extinct member of another.
C16_EraSetExtinctPerEra ==
    (call.op = "external" /\ ret.done /\ Len(call.era) > 0 /\ Len(call.faction) = 0) =>
        ret.ids = {id \in UnitIds(Units) : InEraSet(id, call.era)}

\* E1 and E2 selected: record 3, extinct for E1 and a member of E2, passes
C16_Witness ==
    /\ call.op = "external"
    /\ ret.done
    /\ call.era = <<"E1", "E2">>
    /\ Len(call.faction) = 0
    /\ 3 \in Eras[1].units /\ 3 \in Factions[1].eras[1]
    /\ 3 \in ret.ids

(***************************************************************************)
(* The options advOptions exposes for a multistate dropdown.                *)
(***************************************************************************)
\* advOptions()[conf.key].options of a multistate dropdown, in sorted order
MultistateOptions(conf, state, searchText, sk, cache) ==
    LET availableNames == AvailableNames(conf, state, searchText, sk, cache)
        filteredSet == FilteredAvailableNames(conf, state, searchText, sk, cache)
        sortedNames == smartDropdownSort([i \in 1..Len(availableNames) |->
                                             Chars(availableNames[i])], <<>>)
    IN  [i \in 1..Len(sortedNames) |->
            LET name == CHOOSE n \in Range(availableNames) : Chars(n) = sortedNames[i]
            IN  [name |-> name, available |-> Includes(filteredSet, name)]]

(***************************************************************************)
(* The service with the memo of option names followed: setFilter and        *)
(* setSearch, each with the computation of advOptions it triggers.          *)
(***************************************************************************)
MaxCached == 5

OptionInputs(key) ==
    CASE key = "type" -> {<<>>, <<"Mek">>, <<"Tank">>}
      [] key = "quirks" ->
            {<<>>,
             <<[name |-> "Q1", state |-> "and", count |-> 1]>>,
             <<[name |-> "Q2", state |-> "and", count |-> 1],
               [name |-> "Q1", state |-> "not", count |-> 1]>>}
      [] key = "componentName" ->
            {<<>>,
             <<[name |-> "L", state |-> "and", count |-> 2]>>,
             <<[name |-> "L", state |-> "or", count |-> 1],
               [name |-> "M L", state |-> "not", count |-> 1]>>,
             <<[name |-> "M L", state |-> "and", count |-> 1],
               [name |-> "L", state |-> "not", count |-> 1]>>,
             <<[name |-> "L", state |-> "and", count |-> 1],
               [name |-> "M L", state |-> "or", count |-> 2]>>}

OptionsSetFilter ==
    \E key \in {"type", "quirks", "componentName"} :
        \E value \in OptionInputs(key) :
            LET stored == setFilter(filterState, key, value, search, Skills, totalRangesCache)
                names == CacheAfterEffects(stored, search, Skills, totalRangesCache,
                                           availableNamesCache)
            IN  /\ HasKey(filterState, key) \/ Len(filterState) < MaxFilters
                /\ Cardinality(names) <= MaxCached
                /\ filterState' = FlushEffects(stored, search, Skills, totalRangesCache)
                /\ availableNamesCache' = names
                /\ UNCHANGED <<search, selectedSort, selectedSortDirection, pilotGunnerySkill,
                               pilotPilotingSkill, expandedView, totalRangesCache, call, ret>>

OptionsSetSearch ==
    \E query \in SearchInputs :
        LET names == CacheAfterEffects(filterState, query, Skills, totalRangesCache,
                                       availableNamesCache)
        IN  /\ Cardinality(names) <= MaxCached
            /\ search' = query
            /\ filterState' = FlushEffects(filterState, query, Skills, totalRangesCache)
            /\ availableNamesCache' = names
            /\ UNCHANGED <<selectedSort, selectedSortDirection, pilotGunnerySkill,
                           pilotPilotingSkill, expandedView, totalRangesCache, call, ret>>

SpecOptions == Init /\ [][OptionsSetFilter \/ OptionsSetSearch]_vars

\* C17: after any sequence of search changes and setFilter calls, the option
\* names advOptions exposes for a multistate dropdown are exactly the names
\* present on the records of that filter's current context set; a read never
\* returns the names memoized for an earlier, different context.
C17_OptionNamesOfContext ==
    \A conf \in MultistateConfs :
        LET options == MultistateOptions(conf, filterState, search, Skills, availableNamesCache)
        IN  {options[i].name : i \in 1..Len(options)} =
                UNION {UnitDataNames(u, conf.key) :
                           u \in Range(ContextUnits(conf, filterState, search, Skills))}

\* the selection of a multistate filter that advOptions looks at
TouchedSelection(conf) ==
    IF Interacted(filterState, conf.key) THEN EntryOf(filterState, conf.key).value ELSE <<>>

\* the record satisfies an and entry: by quantity for components, else by name
SatisfiesAnd(u, conf, e) ==
    IF conf.key = "componentName" THEN ComponentCount(u, e.name) >= e.count
    ELSE e.name \in UnitDataNames(u, conf.key)

\* some context record without a not-selected name, satisfying every and entry,
\* carries the name
JointlyCarried(conf, name) ==
    \E u \in Range(ContextUnits(conf, filterState, search, Skills)) :
        /\ name \in UnitDataNames(u, conf.key)
        /\ \A e \in Range(TouchedSelection(conf)) :
               /\ e.state = "not" => e.name \notin UnitDataNames(u, conf.key)
               /\ e.state = "and" => SatisfiesAnd(u, conf, e)

\* C20: for a multistate dropdown without an and entry in its selection every
\* exposed option is available; with at least one and entry an option is
\* available iff some record of the context set that carries no not-selected
\* name and satisfies every and entry carries the option's name (or entries
\* play no part).
C20_AvailabilityFlag ==
    \A conf \in MultistateConfs :
        LET options == MultistateOptions(conf, filterState, search, Skills, availableNamesCache)
            hasAnd == \E e \in Range(TouchedSelection(conf)) : e.state = "and"
        IN  \A i \in 1..Len(options) :
                options[i].available = (~hasAnd \/ JointlyCarried(conf, options[i].name))

\* quirks holds Q2 and, Q1 not: Q2 is exposed available, Q1 exposed unavailable
C20_Witness ==
    /\ Interacted(filterState, "quirks")
    /\ EntryOf(filterState, "quirks").value =
           <<[name |-> "Q2", state |-> "and", count |-> 1],
             [name |-> "Q1", state |-> "not", count |-> 1]>>
    /\ LET options == MultistateOptions(ConfOf("quirks"), filterState, search, Skills,
                                        availableNamesCache)
       IN  /\ \E i \in 1..Len(options) : options[i].name = "Q2" /\ options[i].available
           /\ \E i \in 1..Len(options) : options[i].name = "Q1" /\ ~options[i].available

(***************************************************************************)
(* The matcher with requested quantities.                                  *)
(***************************************************************************)
\* the entry is satisfied by the record: by membership when no or / and entry
\* asks for more than one, else by the record's quantity of the name
EntrySatisfied(u, key, selection, e) ==
    IF \E x \in Range(selection) : x.state \in {"or", "and"} /\ x.count > 1
    THEN UnitDataCount(u, key, e.name) >= e.count
    ELSE e.name \in UnitDataNames(u, key)

\* C19: a record is accepted iff it possesses no not-name, every and entry is
\* satisfied and, when there is an or entry, at least one or entry is satisfied;
\* an entry is satisfied by membership when no or / and entry asks for a count
\* above one, and otherwise by the record's quantity of the name reaching the
\* requested count.
C19_MatcherQuantities ==
    (call.op = "matcher" /\ ret.done) =>
        \A u \in Range(call.units) :
            (u \in Range(ret.units)) =
                (/\ ~HasNotName(u, call.key, call.selection)
                 /\ \A e \in Range(call.selection) :
                        e.state = "and" => EntrySatisfied(u, call.key, call.selection, e)
                 /\ (\E e \in Range(call.selection) : e.state = "or") =>
                        \E e \in Range(call.selection) :
                            e.state = "or" /\ EntrySatisfied(u, call.key, call.selection, e))

\* two of L asked for with and: record 1 (two L) accepted, record 2 (one L) not
C19_Witness ==
    /\ call.op = "matcher"
    /\ ret.done
    /\ call.key = "componentName"
    /\ call.selection = <<[name |-> "L", state |-> "and", count |-> 2]>>
    /\ call.units = Units
    /\ ComponentCount(Units[2], "L") = 1
    /\ ret.units = <<Units[1]>>

(***************************************************************************)
(* clearFilters.                                                           *)
(***************************************************************************)
\* C18: from any state, clearFilters leaves Filter State empty, the search text
\* empty, the sort key 'name', the direction 'asc', gunnery 4 and piloting 5,
\* so that filteredUnits holds every record of the dataset, and it leaves the
\* expanded-view flag as it was.
C18_ClearFiltersResets ==
    [][ClearFilters =>
           /\ filterState' = <<>>
           /\ search' = <<>>
           /\ selectedSort' = "name"
           /\ selectedSortDirection' = "asc"
           /\ pilotGunnerySkill' = 4
           /\ pilotPilotingSkill' = 5
           /\ UnitIds(FilteredRecords(filterState', search',
                                      [gunnery |-> pilotGunnerySkill',
                                       piloting |-> pilotPilotingSkill'])) = UnitIds(Units)
           /\ expandedView' = expandedView]_vars

\* a page opened expanded, sorted on bv, with a search text, and then cleared
C18_Witness ==
    /\ call.op = "startup"
    /\ ret.done
    /\ ret.urlStateInitialized
    /\ call.sort = Chars("bv")
    /\ Len(call.q) > 0
    /\ call.expanded = <<"t", "r", "u", "e">>
    /\ selectedSort = "name"
    /\ search = <<>>
    /\ expandedView

(***************************************************************************)
(* setFilter: the touched flag.                                            *)
(***************************************************************************)
\* the values setFilter is called with in the state at hand: the inputs of the
\* controls and the values that stand for "no constraint"
SetFilterValues(key) == InputsOf(key) \cup InertValues(key, filterState)

\* a value that names no constraint: the currently available range, the empty
\* array, the empty or all-off selection
NamesNoConstraint(key, value) ==
    IF key \in RangeKeys
    THEN /\ value[1] = AvailableRange(ConfOf(key), filterState, search, Skills, totalRangesCache)[1]
         /\ value[2] = AvailableRange(ConfOf(key), filterState, search, Skills, totalRangesCache)[2]
    ELSE IF ConfOf(key).multistate
         THEN {i \in 1..Len(value) : value[i].state # "off"} = {}
         ELSE Len(value) = 0

\* C21: setFilter(key, value) stores the value as untouched when it is the
\* currently available range of a range filter, the empty array of a plain
\* dropdown, or an empty or all-off selection of a multistate dropdown, and as
\* touched otherwise; a filter stored as untouched does not constrain
\* filteredUnits, which then holds the filter's whole context set.
C21_TouchedFromValue ==
    /\ \A key \in FilterKeys :
           \A value \in SetFilterValues(key) :
               LET stored == setFilter(filterState, key, value, search, Skills, totalRangesCache)
               IN  /\ HasKey(stored, key)
                   /\ EntryOf(stored, key).value = value
                   /\ Interacted(stored, key) <=> ~NamesNoConstraint(key, value)
    /\ \A key \in FilterKeys :
           ~Interacted(filterState, key) =>
               FilteredIds(filterState) =
                   UnitIds(ContextUnits(ConfOf(key), filterState, search, Skills))

\* a range filter sits untouched in Filter State with an interval that would drop
\* records were it applied, beside a key whose all-off selection is a possible input
C21_Witness ==
    /\ \E key \in RangeKeys :
           /\ HasKey(filterState, key)
           /\ ~Interacted(filterState, key)
           /\ \E u \in Range(FilteredRecords(filterState, search, Skills)) :
                  ~RangeKeeps(u, ConfOf(key), EntryOf(filterState, key).value, Skills)
    /\ \E key \in FilterKeys :
           \E value \in SetFilterValues(key) :
               Len(value) > 0 /\ ConfOf(key).multistate /\ NamesNoConstraint(key, value)

(***************************************************************************)
(* setFilter: the frame.  A snapshot of Filter State is a value of the     *)
(* model; PutEntry builds the next value beside it, as the object spread   *)
(* of filterState.update does.                                             *)
(***************************************************************************)
\* a key no filter definition carries
UnknownKeys == {"zz"}

SameEntry(before, after, key) ==
    /\ HasKey(before, key) <=> HasKey(after, key)
    /\ HasKey(before, key) => EntryOf(after, key) = EntryOf(before, key)

\* C22: setFilter(key, value) leaves the value and the touched flag of every
\* other key as they were, both when it returns and once the effects it causes
\* have run: the new Filter State holds the entries of the snapshot read before
\* the call, and one entry for the key; with a key that is not a defined filter
\* Filter State stays what it was.
C22_OnlyThatKeyChanges ==
    LET snapshot == filterState
    IN  /\ \A key \in FilterKeys :
               \A value \in SetFilterValues(key) :
                   LET stored == setFilter(filterState, key, value, search, Skills, totalRangesCache)
                       applied == FlushEffects(stored, search, Skills, totalRangesCache)
                   IN  /\ \A other \in FilterKeys \ {key} :
                              SameEntry(snapshot, stored, other) /\ SameEntry(snapshot, applied, other)
                       /\ Len(stored) = Len(snapshot) + (IF HasKey(snapshot, key) THEN 0 ELSE 1)
        /\ \A key \in UnknownKeys :
               \A value \in {<<>>, <<"Tank">>, <<0, 1>>} :
                   /\ setFilter(filterState, key, value, search, Skills, totalRangesCache) = snapshot
                   /\ AfterSetFilter(filterState, key, value, search, Skills, totalRangesCache) = snapshot

\* Filter State holds a touched bv interval and a second touched filter that was set
\* after it
C22_Witness ==
    /\ Len(filterState) = 2
    /\ filterState[1].key = "bv"
    /\ filterState[1].interactedWith
    /\ filterState[2].interactedWith
    /\ FilteredIds(filterState) # FilteredIds(<<filterState[1]>>)

(***************************************************************************)
(* The page from its construction on: the data-ready signal, the one-time   *)
(* restoration and the URL effect.  call holds the page (its query          *)
(* parameters, the readiness signal of the DataService, and the number of   *)
(* times the restoration body and router.navigate have run); ret holds      *)
(* urlStateInitialized, as in SpecStartup.  The range and name caches are   *)
(* read only while the data is ready, when they hold what the dataset       *)
(* gives.                                                                   *)
(***************************************************************************)
MaxRestorations == 2

MaxNavigations == 2

LifecyclePages ==
    {[op |-> "page", segments |-> <<>>, filters |-> f, gunnery |-> g, piloting |-> <<>>,
      expanded |-> e, q |-> q, sort |-> <<>>, sortDir |-> <<>>,
      isDataReady |-> FALSE, restorations |-> 0, navigations |-> 0] :
        f \in {<<>>, Chars("type") \o <<":">> \o Chars("Tank"), Chars("bv") \o <<":", "2", "-", "3">>},
        g \in {<<>>, <<"3">>},
        e \in {<<>>, <<"t", "r", "u", "e">>},
        q \in {<<>>, <<"B", "%", "2", "0", "a">>, <<"%">>}}

\* this.urlStateInitialized
UrlStateInitialized == ret.done /\ ret.urlStateInitialized

\* the signals the URL effect reads
UrlSignals ==
    <<search, filterState, selectedSort, selectedSortDirection, expandedView,
      pilotGunnerySkill, pilotPilotingSkill>>

\* the number of router.navigate calls once the URL effect has run, `written`
\* telling whether one of its signals was written
updateUrlOnFiltersChange(initialized, written) ==
    IF ~initialized THEN call.navigations
    ELSE IF written THEN call.navigations + 1
    ELSE call.navigations

\* dataService.isDataReady becomes true: the restoration effect runs, then the URL
\* effect when one of its signals was written
DataReady ==
    /\ call.op = "page"
    /\ ~call.isDataReady
    /\ IF UrlStateInitialized
       THEN /\ call' = [call EXCEPT !.isDataReady = TRUE]
            /\ UNCHANGED <<serviceVars, ret>>
       ELSE /\ call.restorations < MaxRestorations
            /\ RestoreParams
            /\ call' = [call EXCEPT
                            !.isDataReady = TRUE,
                            !.restorations = @ + 1,
                            !.navigations =
                                updateUrlOnFiltersChange(
                                    ret'.urlStateInitialized,
                                    \/ UrlSignals' # UrlSignals
                                    \/ Len(call.filters) > 0 /\ decodeURIComponent(call.filters).ok)]

\* the dataset is loaded anew: the signal goes back to false
DataReload ==
    /\ call.op = "page"
    /\ call.isDataReady
    /\ call' = [call EXCEPT !.isDataReady = FALSE]
    /\ UNCHANGED <<serviceVars, ret>>

\* setFilter from the filter panel, which shows once the data is ready
LifecycleSetFilter ==
    /\ call.op = "page"
    /\ call.isDataReady
    /\ call.navigations < MaxNavigations
    /\ \E key \in {"type", "bv"} :
           \E value \in InputsOf(key) :
               /\ HasKey(filterState, key) \/ Len(filterState) < MaxFilters
               /\ filterState' =
                      AfterSetFilter(filterState, key, value, search, Skills, totalRangesCache)
    /\ call' = [call EXCEPT !.navigations = updateUrlOnFiltersChange(UrlStateInitialized, TRUE)]
    /\ UNCHANGED <<search, selectedSort, selectedSortDirection, pilotGunnerySkill,
                   pilotPilotingSkill, expandedView, totalRangesCache, availableNamesCache, ret>>

\* setSearch from the search box, at any time
LifecycleSetSearch ==
    /\ call.op = "page"
    /\ call.navigations < MaxNavigations
    /\ \E query \in SearchInputs :
           /\ search' = query
           /\ filterState' =
                  (IF call.isDataReady
                   THEN FlushEffects(filterState, query, Skills, totalRangesCache)
                   ELSE filterState)
           /\ call' = [call EXCEPT
                           !.navigations =
                               updateUrlOnFiltersChange(UrlStateInitialized, query # search)]
    /\ UNCHANGED <<selectedSort, selectedSortDirection, pilotGunnerySkill,
                   pilotPilotingSkill, expandedView, totalRangesCache, availableNamesCache, ret>>

SpecLifecycle ==
    PureInit(LifecyclePages)
        /\ [][DataReady \/ DataReload \/ LifecycleSetFilter \/ LifecycleSetSearch]_vars

\* C23: router.navigate is not called before the restoration has completed; the
\* restoration body runs at most once, the first time the data is ready; and when
\* the data-ready signal fires after a restoration, Filter State and the other
\* restored signals stay what the user made them.
C23_StartupOrdering ==
    [][/\ call'.navigations > call.navigations => ret'.done /\ ret'.urlStateInitialized
       /\ call'.restorations > call.restorations => call.restorations = 0
       /\ (DataReady /\ call.restorations > 0) => UrlSignals' = UrlSignals]_vars

(***************************************************************************)
(* filteredUnits: the sort stage, and the array it sorts.  results.sort    *)
(* sorts in place the array the earlier stages hand over: a fresh array    *)
(* when a stage called Array.prototype.filter, else the array the units    *)
(* getter returned.  The records of this section carry the fields the sort *)
(* reads; chassis and model are lower-case texts, equal to their           *)
(* normalized forms.                                                       *)
(***************************************************************************)
MaxSorted == 3

\* the comparator without the negation for 'desc'
SortCompare_NoNegate(a, b, sortKey, sortDirection, sk) ==
    IF sortKey = "name"
    THEN IF localeCompare(a.chassis, b.chassis) # 0 THEN localeCompare(a.chassis, b.chassis)
         ELSE IF localeCompare(a.model, b.model) # 0 THEN localeCompare(a.model, b.model)
         ELSE (IF a.year = Null THEN 0 ELSE a.year) - (IF b.year = Null THEN 0 ELSE b.year)
    ELSE IF sortKey = "bv" THEN getAdjustedBV(a, sk) - getAdjustedBV(b, sk)
    ELSE IF a[sortKey] # Null /\ b[sortKey] # Null THEN a[sortKey] - b[sortKey]
    ELSE 0

\* the comparator handed to results.sort; a field of value Null is a field the
\* record does not carry
SortCompare(a, b, sortKey, sortDirection, sk) ==
    LET comparison ==
            IF sortKey = "name"
            THEN IF localeCompare(a.chassis, b.chassis) # 0
                 THEN localeCompare(a.chassis, b.chassis)
                 ELSE IF localeCompare(a.model, b.model) # 0
                 THEN localeCompare(a.model, b.model)
                 ELSE (IF a.year = Null THEN 0 ELSE a.year) - (IF b.year = Null THEN 0 ELSE b.year)
            ELSE IF sortKey = "bv" THEN getAdjustedBV(a, sk) - getAdjustedBV(b, sk)
            ELSE IF a[sortKey] # Null /\ b[sortKey] # Null THEN a[sortKey] - b[sortKey]
            ELSE 0
    IN  IF sortDirection = "desc" THEN 0 - comparison ELSE comparison

\* Array.prototype.sort(comparator): a stable insertion sort
RECURSIVE InsertSorted(_, _, _, _, _)
InsertSorted(sorted, x, sortKey, sortDirection, sk) ==
    IF Len(sorted) = 0 THEN <<x>>
    ELSE IF SortCompare(sorted[Len(sorted)], x, sortKey, sortDirection, sk) > 0
         THEN Append(InsertSorted(SubSeq(sorted, 1, Len(sorted) - 1), x, sortKey, sortDirection, sk),
                     sorted[Len(sorted)])
         ELSE Append(sorted, x)

RECURSIVE SortResults(_, _, _, _)
SortResults(results, sortKey, sortDirection, sk) ==
    IF Len(results) = 0 THEN <<>>
    ELSE InsertSorted(SortResults(SubSeq(results, 1, Len(results) - 1), sortKey, sortDirection, sk),
                      results[Len(results)], sortKey, sortDirection, sk)

\* whether the array reaching the sort is a fresh one: some stage called filter
ResultsCopied(state, searchText) ==
    \/ Len(ToLowerCase(Trim(searchText))) # 0
    \/ Len(ActiveNames(state, "era")) > 0
    \/ Len(ActiveNames(state, "faction")) > 0
    \/ \E conf \in Range(ADVANCED_FILTERS) :
           /\ ~conf.external
           /\ Interacted(state, conf.key)
           /\ IF conf.type = "dropdown" /\ conf.multistate
              THEN \E e \in Range(EntryOf(state, conf.key).value) : e.state # "off"
              ELSE IF conf.type = "dropdown" THEN Len(EntryOf(state, conf.key).value) > 0
              ELSE TRUE

\* the records of the dataset: equal chassis, equal chassis and model, a record
\* without a year, a chassis that is a prefix of another
SortRecords ==
    { [chassis |-> <<"a">>, model |-> <<>>, year |-> Null, bv |-> 0],
      [chassis |-> <<"a">>, model |-> <<>>, year |-> 1, bv |-> 3],
      [chassis |-> <<"a">>, model |-> <<"a">>, year |-> 1, bv |-> 2],
      [chassis |-> <<"a">>, model |-> <<"a">>, year |-> 2, bv |-> 2],
      [chassis |-> <<"b">>, model |-> <<>>, year |-> 1, bv |-> 4],
      [chassis |-> <<"a", "b">>, model |-> <<>>, year |-> Null, bv |-> 3] }

FilteredUnitsCalls ==
    {[op |-> "filteredUnits", units |-> l, state |-> s, search |-> q, sortKey |-> k,
      sortDirection |-> d] :
        l \in SeqsOf(SortRecords, 0, MaxSorted),
        s \in {<<>>,
               <<[key |-> "bv", value |-> <<0, 3>>, interactedWith |-> TRUE]>>,
               <<[key |-> "bv", value |-> <<0, 4>>, interactedWith |-> FALSE]>>},
        q \in {<<>>, <<"a">>},
        k \in {"name", "bv", "year"},
        d \in {"asc", "desc"}}

\* one read of filteredUnits: ret.results is the list before the sort, ret.list
\* the list returned, ret.units the array of the units getter after the read
FilteredUnitsRead ==
    /\ call.op = "filteredUnits"
    /\ ret = NoRet
    /\ \E results \in {applyFilters(TextFilter(call.units, call.search), call.state, Skills)} :
           \E sorted \in {SortResults(results, call.sortKey, call.sortDirection, Skills)} :
               ret' = [done |-> TRUE, results |-> results, list |-> sorted,
                       units |-> IF ResultsCopied(call.state, call.search)
                                 THEN call.units
                                 ELSE sorted]
    /\ UNCHANGED <<serviceVars, call>>

SpecFilteredUnits == PureInit(FilteredUnitsCalls) /\ [][FilteredUnitsRead]_vars

\* (chassis, model, year) of a before or equal to that of b; no year counts as 0
NameKeyLeq(a, b) ==
    \/ localeCompare(a.chassis, b.chassis) < 0
    \/ /\ a.chassis = b.chassis
       /\ \/ localeCompare(a.model, b.model) < 0
          \/ /\ a.model = b.model
             /\ (IF a.year = Null THEN 0 ELSE a.year) <= (IF b.year = Null THEN 0 ELSE b.year)

Occurrences(s, x) == Cardinality({i \in 1..Len(s) : s[i] = x})

\* C24: with sort key 'name' the list returned is a permutation of the filtered
\* records; with direction 'asc' every adjacent pair is in non-decreasing order of
\* (chassis, model, year), with 'desc' in non-increasing order of the same key.
C24_SortByName ==
    (call.op = "filteredUnits" /\ ret.done /\ call.sortKey = "name") =>
        /\ Len(ret.list) = Len(ret.results)
        /\ \A r \in Range(ret.results) \cup Range(ret.list) :
               Occurrences(ret.list, r) = Occurrences(ret.results, r)
        /\ call.sortDirection = "asc" =>
               \A i \in 1..(Len(ret.list) - 1) : NameKeyLeq(ret.list[i], ret.list[i + 1])
        /\ call.sortDirection = "desc" =>
               \A i \in 1..(Len(ret.list) - 1) : NameKeyLeq(ret.list[i + 1], ret.list[i])

\* three records of one chassis, two of them of one model, handed over out of order
\* and returned in descending order
C24_Witness ==
    /\ call.op = "filteredUnits"
    /\ ret.done
    /\ call.sortKey = "name"
    /\ call.sortDirection = "desc"
    /\ Len(ret.list) = 3
    /\ ret.list # ret.results
    /\ ret.list[1].chassis = ret.list[3].chassis
    /\ ret.list[1].model = ret.list[2].model
    /\ ret.list[1].year > ret.list[2].year
    /\ ret.list[2].model # ret.list[3].model

\* C26: a read of filteredUnits leaves the array of the units getter holding the
\* same records in the same order, whatever the search text, Filter State and
\* sort, the state without a query and without a touched filter included.
C26_DatasetListUnchanged ==
    (call.op = "filteredUnits" /\ ret.done) => ret.units = call.units

(***************************************************************************)
(* The service driven with ordered intervals only.                         *)
(***************************************************************************)
\* the intervals the sliders send, each with min <= max
OrderedRangeInputs(key) ==
    CASE key = "bv" -> {<<0, 3>>, <<2, 2>>, <<3, 4>>}
      [] key = "heat" -> {<<0, 9>>, <<0, 1>>, <<2, 3>>}

SetFilterOrderedRange ==
    \E key \in RangeKeys :
        \E value \in OrderedRangeInputs(key) \cup ResetInputs(key) :
            SetFilter(key, value)

SpecOrdered ==
    Init /\ [][SetFilterDropdown \/ SetFilterOrderedRange \/ SetSearch \/ SetPilotSkills
                   \/ ClearFilters]_vars

\* C25: after every step every touched range filter stores an interval with
\* min <= max, and after a change of the pilot skills a touched bv interval lies
\* inside the bv total range derived for the new skills.
C25_TouchedRangeOrdered ==
    [][/\ \A key \in RangeKeys :
              Interacted(filterState', key) =>
                  EntryOf(filterState', key).value[1] <= EntryOf(filterState', key).value[2]
       /\ (SetPilotSkills /\ Interacted(filterState', "bv")) =>
              /\ totalRangesCache'["bv"][1] <= EntryOf(filterState', "bv").value[1]
              /\ EntryOf(filterState', "bv").value[2] <= totalRangesCache'["bv"][2]]_vars

\* C27: for every filter definition the records of filteredUnits are among the
\* records of that filter's context set, the pipeline run without that filter's
\* own entry; so with era touched, touching faction adds no record.
C27_FilteredWithinContext ==
    (call.op = "external" /\ ret.done) =>
        \A conf \in Range(ADVANCED_FILTERS) :
            ret.ids \subseteq
                UnitIds(ContextUnits(conf, call.state, <<>>, [gunnery |-> 4, piloting |-> 5]))

\* C28: for every text and every group of terms, the terms typed in any order
\* give the same outcome: the text matches the words prepared from one order
\* iff it matches the words prepared from the other, terms of equal length
\* included.
C28_TermOrderIrrelevant ==
    (call.op = "tokens" /\ ret.done) =>
        \A typed \in SeqsOf(Range(call.tokens), Len(call.tokens), Len(call.tokens)) :
            Range(typed) = Range(call.tokens) =>
                (tokensMatchNonOverlapping(call.text, GroupWords(Join(typed, <<" ">>)))
                     <=> ret.match)

\* the records of a range filter's context set that an interval keeps
KeptByInterval(key, interval) ==
    {u \in Range(ContextUnits(ConfOf(key), filterState, search, Skills)) :
        RangeKeeps(u, ConfOf(key), interval, Skills)}

\* C29: for every touched range filter, the interval advOptions exposes as value
\* keeps the same records of the filter's context set as the stored interval the
\* pipeline applies, records carrying an ignored value included.
C29_ExposedSelectsAsStored ==
    \A key \in RangeKeys :
        Interacted(filterState, key) =>
            KeptByInterval(key, EntryOf(filterState, key).value) =
                KeptByInterval(key, ExposedRangeValue(ConfOf(key), filterState, search, Skills,
                                                      totalRangesCache))

\* C30: for a multistate dropdown whose selection holds an and entry, selecting
\* an option exposed as available with state and and count 1, beside the or and
\* not entries of the selection, leaves filteredUnits with at least one record.
C30_AvailableJointlySatisfiable ==
    \A conf \in MultistateConfs :
        LET options == MultistateOptions(conf, filterState, search, Skills, availableNamesCache)
            selection == TouchedSelection(conf)
        IN  (\E e \in Range(selection) : e.state = "and") =>
                \A i \in 1..Len(options) :
                    options[i].available =>
                        FilteredIds(AfterSetFilter(
                            filterState, conf.key,
                            PutSelection(selection,
                                         [name |-> options[i].name, state |-> "and", count |-> 1]),
                            search, Skills, totalRangesCache)) # {}

====
